---- MODULE Spec2Model ----
(***************************************************************************)
(* State-machine model of the natural-language task-entry pipeline of the  *)
(* to-do application:                                                      *)
(*   - SmartTaskInput.js : typing session, debounce, parse requests        *)
(*   - ai-client.js      : makeRequest / shouldRetry / classifyError       *)
(*   - Tasks.js, hooks   : handleAddTask and the optimistic task list      *)
(*   - ai-task-processor.js : the endpoint, its cache and its heuristics   *)
(* The specifications share the variables: SpecInput (typing session),     *)
(* SpecParse (smart-parse calls of the session), SpecSelection (the check  *)
(* boxes of the form), SpecCompose (task/subtask composition), SpecRetry   *)
(* (the Retry action of a failed creation), SpecRequest (makeRequest),     *)
(* SpecEndpoint (the endpoint) and SpecHeuristic (smartParseTask and       *)
(* getQuickParseResult as functions of the input text).                    *)
(***************************************************************************)
EXTENDS Integers, Sequences, FiniteSets, TLC

(***************************************************************************)
(* Bounds of the model                                                     *)
(***************************************************************************)
MaxReq == 2
TimeStep == 600
MaxComps == 1
MaxRetryCalls == 2
MaxDay == 2

(***************************************************************************)
(* Program constants                                                       *)
(***************************************************************************)
DebounceWait == 1200
TypingMinLen == 8
BlurMinLen == 5
MinWords == 2
DEFAULT_TIMEOUT == 30000
MAX_RETRIES == 2
RETRY_DELAY == 1000
ParseTimeout == 5000

(***************************************************************************)
(* Texts.  A text is a sequence of one-character strings, so that trim()   *)
(* and split(/\s+/) are computed and not assumed.                          *)
(***************************************************************************)
TxtCallSara == <<"c", "a", "l", "l", " ", "s", "a", "r", "a">>
TxtCallSar == <<"c", "a", "l", "l", " ", "s", "a", "r">>
\* one word followed by two spaces: 9 characters, 7 after trim()
TxtGrocery == <<"g", "r", "o", "c", "e", "r", "y", " ", " ">>
ExampleSmartParse == <<"P", "l", "a", "n", " ", "t", "e", "a", "m", " ", "m", "e", "e", "t", "i", "n", "g", " ", "n", "e", "x", "t", " ", "F", "r", "i", "d", "a", "y", " ", "m", "o", "r", "n", "i", "n", "g">>
ExampleBreakdown == <<"O", "r", "g", "a", "n", "i", "z", "e", " ", "c", "o", "m", "p", "a", "n", "y", " ", "r", "e", "t", "r", "e", "a", "t">>
ExampleScheduling == <<"P", "r", "e", "p", "a", "r", "e", " ", "p", "r", "e", "s", "e", "n", "t", "a", "t", "i", "o", "n", " ", "f", "o", "r", " ", "b", "o", "a", "r", "d", " ", "m", "e", "e", "t", "i", "n", "g">>
ExampleSuggestions == <<"W", "r", "i", "t", "e", " ", "b", "l", "o", "g", " ", "p", "o", "s", "t", " ", "a", "b", "o", "u", "t", " ", "A", "I">>

\* values the user can put in the input element with one change event
TypedValues == {TxtCallSar, TxtCallSara, TxtGrocery}

IsSpace(c) == c = " "

RECURSIVE TrimStart(_)
TrimStart(s) == IF s = << >> THEN << >>
                ELSE IF IsSpace(Head(s)) THEN TrimStart(Tail(s)) ELSE s

RECURSIVE TrimEnd(_)
TrimEnd(s) == IF s = << >> THEN << >>
              ELSE IF IsSpace(s[Len(s)]) THEN TrimEnd(SubSeq(s, 1, Len(s) - 1)) ELSE s

\* String.prototype.trim
Trim(s) == TrimEnd(TrimStart(s))

\* trimmedText.split(/\s+/).filter(word => word.length > 0).length
RECURSIVE WordCount(_)
WordCount(s) ==
  IF s = << >> THEN 0
  ELSE IF IsSpace(Head(s)) THEN WordCount(Tail(s))
  ELSE IF Len(s) = 1 \/ IsSpace(s[2]) THEN 1 + WordCount(Tail(s))
  ELSE WordCount(Tail(s))

Min(a, b) == IF a < b THEN a ELSE b

(***************************************************************************)
(* String operations used by the endpoint (api/ai-task-processor.js)       *)
(***************************************************************************)
UpperCase == <<"A", "B", "C", "D", "E", "F", "G", "H", "I", "J", "K", "L", "M", "N", "O", "P", "Q", "R", "S", "T", "U", "V", "W", "X", "Y", "Z">>
LowerCase == <<"a", "b", "c", "d", "e", "f", "g", "h", "i", "j", "k", "l", "m", "n", "o", "p", "q", "r", "s", "t", "u", "v", "w", "x", "y", "z">>

\* one character of String.prototype.toLowerCase
LowerChar(c) ==
  IF \E i \in 1..Len(UpperCase) : UpperCase[i] = c
  THEN LowerCase[CHOOSE i \in 1..Len(UpperCase) : UpperCase[i] = c]
  ELSE c

toLowerCase(s) == [i \in 1..Len(s) |-> LowerChar(s[i])]

startsWith(s, prefix) ==
  Len(s) >= Len(prefix) /\ SubSeq(s, 1, Len(prefix)) = prefix

\* String.prototype.slice with one argument
slice(s, n) == SubSeq(s, n + 1, Len(s))

\* String.prototype.includes
includes(s, part) ==
  \E i \in 0..(Len(s) - Len(part)) : SubSeq(s, i + 1, i + Len(part)) = part


\* \w of a regular expression
IsWordChar(c) ==
  \/ \E i \in 1..Len(LowerCase) : LowerCase[i] = c \/ UpperCase[i] = c
  \/ c \in {"0", "1", "2", "3", "4", "5", "6", "7", "8", "9", "_"}

\* /\b(word)\b/i.test(s) for a word that begins and ends with a word character
MatchesWord(s, word) ==
  \E i \in 0..(Len(s) - Len(word)) :
    /\ toLowerCase(SubSeq(s, i + 1, i + Len(word))) = word
    /\ (i = 0 \/ ~IsWordChar(s[i]))
    /\ (i + Len(word) = Len(s) \/ ~IsWordChar(s[i + Len(word) + 1]))

\* texts a request can carry as userInput
InBuyMilk == <<"b", "u", "y", " ", "m", "i", "l", "k">>
InBuyMilkUpper == <<" ", "B", "U", "Y", " ", "m", "i", "l", "k">>
InReadTomorrow == <<"r", "e", "a", "d", " ", "i", "t", " ", "t", "o", "m", "o", "r", "r", "o", "w">>
UserInputs == {InBuyMilk, InBuyMilkUpper, InReadTomorrow}

(***************************************************************************)
(* State                                                                   *)
(***************************************************************************)
VARIABLES
  \* SmartTaskInput component state (useState hooks)
  isExpanded, input, aiSuggestions, isProcessing, parsedTask,
  \* pending setTimeout callbacks of the debounce closures, oldest first
  timers,
  \* the unresolved requests issued by processWithAI, oldest first, and the
  \* number of requests issued so far
  reqs, issued,
  \* milliseconds since the last change event, saturating at DebounceWait
  sinceKey,
  selectedSuggestions,
  \* task data handed to onAddTask by handleSubmit
  submitted,
  \* what the catch block of processWithAI wrote to the console for the call
  \* that settled last
  lastLog,
  \* useTasks: the client task list; the persistence layer: its rows, the
  \* next identifier it hands out, and whether a change notification is due
  tasks, db, nextId, changed,
  \* number of distinct Date.now() values used for temporary identifiers
  tempCount,
  \* running compositions (handleAddSelectedSuggestions / handleSuggestionClick)
  \* and every call of handleAddTask they made, in call order
  comps, pcalls, notifications, selectedProject, day,
  \* makeRequest: position of the running call, retries left, options.timeout
  \* in effect, outcomes of the attempts so far, backoff delays waited so far,
  \* and the error the call finally threw
  mrPc, mrRetries, mrTimeout, mrHist, mrDelays, mrError,
  \* the endpoint: whether process.env.OPENAI_API_KEY is set, Date.now() of
  \* the server, the module-level responseCache (entries with their keys),
  \* the requests whose handler awaits the model, the exchanges completed so
  \* far (response and what the client made of it), the number of
  \* requests received, and the status of the last request the handler
  \* turned away before its cache lookup (0: none yet)
  apiKey, srvClock, responseCache, srvPending, srvDone, srvCount, srvRejected,
  \* a call of one of the parsing functions of the endpoint: its argument and
  \* what it returned
  hInput, hResult

formVars == <<isExpanded, input, aiSuggestions, parsedTask, selectedSuggestions>>
sessionVars == <<isProcessing, timers, reqs, issued, sinceKey, submitted, lastLog>>
composeVars == <<tasks, db, nextId, changed, tempCount, comps, pcalls,
                 notifications, selectedProject, day>>
requestVars == <<mrPc, mrRetries, mrTimeout, mrHist, mrDelays, mrError>>
endpointVars == <<apiKey, srvClock, responseCache, srvPending, srvDone, srvCount,
                  srvRejected>>
heuristicVars == <<hInput, hResult>>
vars == <<formVars, sessionVars, composeVars, requestVars, endpointVars, heuristicVars>>


(***************************************************************************)
(* SmartTaskInput: values of the component state                           *)
(***************************************************************************)
Features == {"smart-parse", "task-breakdown", "smart-scheduling", "contextual-suggestions"}

\* aiFeatures[].example with the leading 'Try: ' removed
FeatureExample(f) ==
  IF f = "smart-parse" THEN ExampleSmartParse
  ELSE IF f = "task-breakdown" THEN ExampleBreakdown
  ELSE IF f = "smart-scheduling" THEN ExampleScheduling
  ELSE ExampleSuggestions

\* null for parsedTask / aiSuggestions; a result names the request it answers
NoResult == [seq |-> 0, text |-> << >>, feature |-> "none", suggestions |-> << >>]

\* suggestion texts a response can carry
Sugg1 == <<"s", "1">>
Sugg2 == <<"s", "2">>
SuggestionLists == {<< >>, <<Sugg1, Sugg2>>}

\* what the taskProcessor method of a feature returns for request r: smartParse
\* and getContextualSuggestions return a `suggestions` array (empty when the
\* response has none), breakdownTask and getSmartScheduling return none.
\* seq is a ghost field copied from the request.
Result(r, sg) ==
  [seq |-> r.seq, text |-> r.text, feature |-> r.feature,
   suggestions |-> IF r.feature \in {"smart-parse", "contextual-suggestions"} THEN sg ELSE << >>]
\* no task handed over yet.  A task record carries the ghost fields raw (the
\* input at the submit) and afterTimeout (the latest settled call was a
\* smart-parse call for this input that timed out)
NoTask == [task |-> << >>, aiEnhanced |-> FALSE, raw |-> << >>, afterTimeout |-> FALSE]

\* no call has settled; otherwise the level is that of the console entry
\* (console.log or console.error; none when the call returned) and seq,
\* feature and text are ghost fields naming the request
NoLog == [level |-> "none", seq |-> 0, feature |-> "none", text |-> << >>]

\* room for one more request, counting the timers that will still issue one
CanIssue == issued + Len(timers) < MaxReq

(***************************************************************************)
(* debounce(func, wait): the returned function clears the timer stored in  *)
(* its own closure variable and arms a new one.  debounceAIProcess is      *)
(* built by debounce() in the component body, so each render has its own   *)
(* closure; a change event always re-renders (setInput with a new value),  *)
(* so the closure a handler calls has never been called before and its     *)
(* `timeout` is still undefined: clearTimeout(undefined) clears nothing.   *)
(***************************************************************************)
ClosureTimeouts(tm) == {}

RECURSIVE RemoveAt(_, _)
RemoveAt(tm, idxs) ==
  IF tm = << >> THEN << >>
  ELSE IF Len(tm) \in idxs
       THEN RemoveAt(SubSeq(tm, 1, Len(tm) - 1), idxs)
       ELSE Append(RemoveAt(SubSeq(tm, 1, Len(tm) - 1), idxs), tm[Len(tm)])

debounce(tm, value) ==
  Append(RemoveAt(tm, ClosureTimeouts(tm)), [text |-> value, left |-> DebounceWait])

\* the request record processWithAI creates; the ghost fields seq, origin,
\* raw, short, fresh, quiet and superseded record the circumstances of the
\* issue
NewRequest(text, raw, feature, origin) ==
  [seq |-> issued + 1, text |-> text, raw |-> raw, feature |-> feature,
   origin |-> origin, short |-> (Len(input) <= TypingMinLen),
   fresh |-> (raw = input), quiet |-> (sinceKey >= DebounceWait),
   superseded |-> FALSE]

\* processWithAI up to its await: early return on blank text, otherwise
\* setIsProcessing(true) and the call to taskProcessor
processWithAI(text, raw, feature, origin) ==
  IF Trim(text) = << >>
  THEN UNCHANGED <<isProcessing, reqs, issued>>
  ELSE /\ isProcessing' = TRUE
       /\ reqs' = Append(reqs, NewRequest(text, raw, feature, origin))
       /\ issued' = issued + 1

\* collapsed view: the expand button
Expand ==
  /\ ~isExpanded
  /\ isExpanded' = TRUE
  /\ UNCHANGED <<composeVars, requestVars, endpointVars, heuristicVars>>
  /\ UNCHANGED <<selectedSuggestions, input, aiSuggestions, isProcessing, parsedTask,
                 timers, reqs, issued, sinceKey, submitted, lastLog>>

\* onChange of the input element; React fires it only when the value changed
handleInputChange(value) ==
  /\ isExpanded
  /\ value # input
  /\ input' = value
  /\ parsedTask' = NoResult
  /\ aiSuggestions' = NoResult
  /\ IF Len(value) > TypingMinLen /\ ~isProcessing
     THEN /\ CanIssue
          /\ timers' = debounce(timers, value)
     ELSE UNCHANGED timers
  /\ reqs' = [i \in 1..Len(reqs) |-> [reqs[i] EXCEPT !.superseded = TRUE]]
  /\ sinceKey' = 0
  /\ UNCHANGED <<composeVars, requestVars, endpointVars, heuristicVars>>
  /\ UNCHANGED <<selectedSuggestions, isExpanded, isProcessing, issued, submitted, lastLog>>

\* time passes: never beyond the next timer that is due
Tick ==
  /\ \/ timers # << >> /\ \A i \in 1..Len(timers) : timers[i].left > 0
     \/ timers = << >> /\ sinceKey < DebounceWait
  /\ LET d == IF timers = << >> THEN TimeStep ELSE Min(TimeStep, timers[1].left)
     IN /\ timers' = [i \in 1..Len(timers) |->
                        [timers[i] EXCEPT !.left = IF @ > d THEN @ - d ELSE 0]]
        /\ sinceKey' = Min(sinceKey + d, DebounceWait)
  /\ UNCHANGED <<composeVars, requestVars, endpointVars, heuristicVars>>
  /\ UNCHANGED <<selectedSuggestions, isExpanded, input, aiSuggestions, isProcessing, parsedTask, reqs, issued, submitted, lastLog>>

\* the `later` callback of the oldest due timer: the function debounced at
\* lines 128-136 runs with the text captured when the timer was armed
TimerFire ==
  /\ timers # << >>
  /\ timers[1].left = 0
  /\ timers' = Tail(timers)
  /\ LET trimmedText == Trim(timers[1].text)
     IN IF WordCount(trimmedText) >= MinWords
        THEN processWithAI(trimmedText, timers[1].text, "smart-parse", "typing")
        ELSE UNCHANGED <<isProcessing, reqs, issued>>
  /\ UNCHANGED <<composeVars, requestVars, endpointVars, heuristicVars>>
  /\ UNCHANGED <<selectedSuggestions, isExpanded, input, aiSuggestions, parsedTask,
                 sinceKey, submitted, lastLog>>

\* onBlur of the input element
handleInputBlur ==
  /\ isExpanded
  /\ LET value == Trim(input)
     IN /\ Len(value) > BlurMinLen /\ ~isProcessing /\ parsedTask = NoResult
        /\ CanIssue
        /\ processWithAI(value, input, "smart-parse", "blur")
  /\ UNCHANGED <<composeVars, requestVars, endpointVars, heuristicVars>>
  /\ UNCHANGED <<selectedSuggestions, isExpanded, input, aiSuggestions, parsedTask,
                 timers, sinceKey, submitted, lastLog>>

\* a button of the AI feature panel (disabled while isProcessing); the panel
\* can be opened at any time with the toggle button, which changes nothing else
handleAIFeatureClick(f) ==
  /\ isExpanded /\ ~isProcessing
  /\ IF Trim(input) = << >>
     THEN /\ input' = FeatureExample(f)
          /\ UNCHANGED <<isProcessing, reqs, issued>>
     ELSE /\ CanIssue
          /\ processWithAI(input, input, f, "feature")
          /\ UNCHANGED input
  /\ UNCHANGED <<composeVars, requestVars, endpointVars, heuristicVars>>
  /\ UNCHANGED <<selectedSuggestions, isExpanded, aiSuggestions, parsedTask,
                 timers, sinceKey, submitted, lastLog>>

\* processWithAI with setIsProcessing(false) at the end of the try block
\* instead of in a finally block
ResolveWithoutFinally(i, outcome, sg) ==
  /\ i \in 1..Len(reqs)
  /\ reqs' = SubSeq(reqs, 1, i - 1) \o SubSeq(reqs, i + 1, Len(reqs))
  /\ IF outcome = "ok"
     THEN IF reqs[i].feature = "smart-parse"
          THEN /\ parsedTask' = Result(reqs[i], sg)
               /\ UNCHANGED aiSuggestions
          ELSE /\ aiSuggestions' = Result(reqs[i], sg)
               /\ UNCHANGED parsedTask
     ELSE UNCHANGED <<parsedTask, aiSuggestions>>
  /\ lastLog' = [level |-> IF outcome = "ok" THEN "none"
                            ELSE IF outcome = "timeout" THEN "log" ELSE "error",
                  seq |-> reqs[i].seq, feature |-> reqs[i].feature,
                  text |-> reqs[i].text]
  /\ isProcessing' = IF outcome = "ok" THEN FALSE ELSE isProcessing
  /\ UNCHANGED <<composeVars, requestVars, endpointVars, heuristicVars>>
  /\ UNCHANGED <<selectedSuggestions, isExpanded, input, timers, issued, sinceKey, submitted>>

\* processWithAI after its await: the call of request i settles.  The
\* outcome "error" stands for both console.error branches of the catch block:
\* an AIClientError other than a timeout, and any other exception.
Resolve(i, outcome, sg) ==
  /\ i \in 1..Len(reqs)
  /\ reqs' = SubSeq(reqs, 1, i - 1) \o SubSeq(reqs, i + 1, Len(reqs))
  /\ IF outcome = "ok"
     THEN IF reqs[i].feature = "smart-parse"
          THEN /\ parsedTask' = Result(reqs[i], sg)
               /\ UNCHANGED aiSuggestions
          ELSE /\ aiSuggestions' = Result(reqs[i], sg)
               /\ UNCHANGED parsedTask
     ELSE UNCHANGED <<parsedTask, aiSuggestions>>
  /\ lastLog' = [level |-> IF outcome = "ok" THEN "none"
                            ELSE IF outcome = "timeout" THEN "log" ELSE "error",
                  seq |-> reqs[i].seq, feature |-> reqs[i].feature,
                  text |-> reqs[i].text]
  /\ isProcessing' = FALSE
  /\ UNCHANGED <<composeVars, requestVars, endpointVars, heuristicVars>>
  /\ UNCHANGED <<selectedSuggestions, isExpanded, input, timers, issued, sinceKey, submitted>>

\* form submit (the submit button is disabled while isProcessing)
handleSubmit ==
  /\ isExpanded /\ ~isProcessing
  /\ Trim(input) # << >>
  /\ LET afterTimeout == /\ lastLog.level = "log" /\ lastLog.feature = "smart-parse"
                         /\ Trim(lastLog.text) = Trim(input)
     IN submitted' = IF parsedTask # NoResult
                     THEN [task |-> parsedTask.text, aiEnhanced |-> TRUE,
                           raw |-> input, afterTimeout |-> afterTimeout]
                     ELSE [task |-> input, aiEnhanced |-> FALSE,
                           raw |-> input, afterTimeout |-> afterTimeout]
  /\ input' = << >>
  /\ parsedTask' = NoResult
  /\ aiSuggestions' = NoResult
  /\ isExpanded' = FALSE
  /\ UNCHANGED <<composeVars, requestVars, endpointVars, heuristicVars>>
  /\ UNCHANGED <<selectedSuggestions, isProcessing, timers, reqs, issued, sinceKey, lastLog>>

\* the Cancel button
CancelClick ==
  /\ isExpanded
  /\ isExpanded' = FALSE
  /\ input' = << >>
  /\ parsedTask' = NoResult
  /\ aiSuggestions' = NoResult
  /\ selectedSuggestions' = << >>
  /\ UNCHANGED <<composeVars, requestVars, endpointVars, heuristicVars>>
  /\ UNCHANGED <<isProcessing, timers, reqs, issued, sinceKey, submitted, lastLog>>

\* what the component renders (lines 520-640): the input element carries no
\* `disabled` attribute, and no element is bound to an error, so the view has
\* no message whatever happened; console output is not part of the view
View ==
  [expanded |-> isExpanded,
   value |-> input,
   inputDisabled |-> FALSE,
   submitDisabled |-> (Trim(input) = << >> \/ isProcessing),
   processingBanner |-> isProcessing,
   parsedPreview |-> parsedTask # NoResult,
   suggestionsPanel |-> aiSuggestions # NoResult,
   message |-> "none"]

Outcomes == {"ok", "timeout", "error"}

\* the feature buttons used in the typing session
SessionFeatures == {"smart-parse", "contextual-suggestions"}

\* the suggestions a response of the typing session carries
SessionSuggestions == {<<Sugg1, Sugg2>>}

\* the typing session of a user who types one of two texts and uses only the
\* Smart Parse button
ParseValues == {TxtCallSara, TxtGrocery}

NextParse ==
  \/ Expand
  \/ \E value \in ParseValues : handleInputChange(value)
  \/ Tick
  \/ TimerFire
  \/ handleInputBlur
  \/ handleAIFeatureClick("smart-parse")
  \/ \E i \in 1..MaxReq, outcome \in Outcomes, sg \in SessionSuggestions : Resolve(i, outcome, sg)
  \/ handleSubmit
  \/ CancelClick

NextInput ==
  \/ Expand
  \/ \E value \in TypedValues : handleInputChange(value)
  \/ Tick
  \/ TimerFire
  \/ handleInputBlur
  \/ \E f \in SessionFeatures : handleAIFeatureClick(f)
  \/ \E i \in 1..MaxReq, outcome \in Outcomes, sg \in SessionSuggestions : Resolve(i, outcome, sg)
  \/ handleSubmit
  \/ CancelClick



(***************************************************************************)
(* Tasks.js / hooks: handleAddTask and the optimistic task list            *)
(***************************************************************************)
\* identifiers of list entries: 'temp-' + Date.now(), the identifier of a
\* persisted row, or undefined
TempId(n) == [kind |-> "temp", n |-> n]
RealId(n) == [kind |-> "real", n |-> n]
UndefinedId == [kind |-> "undefined", n |-> 0]

\* addTaskOptimistic: the optimistic entry goes to the front of the list
addTaskOptimistic(list, temp, label, parent) ==
  <<[id |-> TempId(temp), label |-> label, parent |-> parent, optimistic |-> TRUE]>> \o list

\* updateTaskOptimistic(taskId, updates) with updates = {id, _optimistic:
\* false}: the spread of updates is followed by _optimistic: true
updateTaskOptimistic(list, taskId, newId) ==
  [i \in 1..Len(list) |->
     IF list[i].id = taskId
     THEN [list[i] EXCEPT !.id = newId, !.optimistic = TRUE]
     ELSE list[i]]

\* revertOptimisticUpdate(originalTasks): originalTasks is the `tasks` of the
\* render whose handleAddTask the caller holds
revertOptimisticUpdate(list, originalTasks) == originalTasks

\* rows of the persistence layer, newest first, as the subscription delivers
\* them (getTasksWithRelations orders by created_at descending)
RECURSIVE RowsDescending(_)
RowsDescending(rows) ==
  IF rows = {} THEN << >>
  ELSE LET newest == CHOOSE r \in rows : \A o \in rows : o.id <= r.id
       IN <<[id |-> RealId(newest.id), label |-> newest.label,
             parent |-> newest.parent, optimistic |-> FALSE]>>
          \o RowsDescending(rows \ {newest})

\* dates: '' or the day moment() formats
NoDate == [kind |-> "none", n |-> 0]
DayDate(n) == [kind |-> "day", n |-> n]

\* collatedDate || taskData.date || ''
collatedDate(projectId, today, date) ==
  IF projectId = "TODAY" THEN DayDate(today)
  ELSE IF projectId = "NEXT_7" THEN DayDate(today + 7)
  ELSE date

\* a call of handleAddTask: finalTaskData of lines 60-71 and the state of its
\* createTask.  comp is the composition whose render created the handler,
\* retryOf the failed call whose notification started this one (0: none).
\* projectId is taskData.projectId || selectedProject.
finalTaskData(comp, role, taskData, temp, retryOf) ==
  [comp |-> comp, role |-> role, label |-> taskData.label, parent |-> taskData.parent,
   projectId |-> IF taskData.projectId # "" THEN taskData.projectId ELSE selectedProject,
   date |-> collatedDate(IF taskData.projectId # "" THEN taskData.projectId ELSE selectedProject,
                         day, taskData.date),
   priority |-> taskData.priority, metadata |-> taskData.metadata,
   temp |-> temp, status |-> "pending", id |-> 0, retryOf |-> retryOf]

\* the drafts of the composer: projectId || '1', date parsedTask.date || ''
\* (the texts of the form carry no date) and '' for a subtask, priority
\* 'medium' for the main task and 'low' for a subtask of plain text
MainTaskData(label) ==
  [label |-> label, parent |-> 0,
   projectId |-> IF selectedProject # "" THEN selectedProject ELSE "1",
   date |-> NoDate, priority |-> "medium", metadata |-> "main"]

SubtaskData(label, parent) ==
  [label |-> label, parent |-> parent,
   projectId |-> IF selectedProject # "" THEN selectedProject ELSE "1",
   date |-> NoDate, priority |-> "low", metadata |-> "subtask"]

\* showOptimisticUpdateError('save task', originalTasks, retry): an error
\* notification whose Retry action replays the call's finalTaskData
showOptimisticUpdateError(list, call) ==
  Append(list, [call |-> call, type |-> "error", action |-> "Retry"])

(***************************************************************************)
(* SmartTaskInput: the task/subtask composer                               *)
(***************************************************************************)
\* parsedTask?.suggestions || aiSuggestions?.suggestions ||
\* aiSuggestions?.breakdown || []  (an empty array is truthy; the breakdown
\* items carry no selectable identifiers and are not modelled)
SuggestionsOf(parsed, ai) ==
  IF parsed # NoResult THEN parsed.suggestions
  ELSE IF ai # NoResult /\ ai.feature = "contextual-suggestions" THEN ai.suggestions
  ELSE << >>

\* the lists rendered with check boxes
DisplayedSuggestions ==
  {[index |-> i, text |-> parsedTask.suggestions[i]] : i \in 1..Len(parsedTask.suggestions)}
  \cup {[index |-> i, text |-> aiSuggestions.suggestions[i]] : i \in 1..Len(aiSuggestions.suggestions)}

\* mainTaskData.task: parsedTask.taskName || input.trim()
MainLabel(parsed, text) == IF parsed # NoResult THEN parsed.text ELSE Trim(text)

\* the subtasks array of lines 270-297: one draft per selected identifier
\* whose index names an entry of the suggestions, in selection order
RECURSIVE SubtaskDrafts(_, _)
SubtaskDrafts(selected, suggestions) ==
  IF selected = << >> THEN << >>
  ELSE LET first == Head(selected)
           rest == SubtaskDrafts(Tail(selected), suggestions)
       IN IF first.index \in 1..Len(suggestions)
          THEN <<suggestions[first.index]>> \o rest
          ELSE rest

\* a composer that does not look at the identifier
HasIdAlways(created) == TRUE

\* createdMainTask?.id
HasId(created) == created # 0

\* a reset that forgets the selection set
ResetFormKeepSelection ==
  /\ input' = << >>
  /\ parsedTask' = NoResult
  /\ aiSuggestions' = NoResult
  /\ selectedSuggestions' = selectedSuggestions
  /\ isExpanded' = FALSE

\* the form is reset at the end of a composition
ResetForm ==
  /\ input' = << >>
  /\ parsedTask' = NoResult
  /\ aiSuggestions' = NoResult
  /\ selectedSuggestions' = << >>
  /\ isExpanded' = FALSE

\* a check box of a displayed suggestion
handleSuggestionToggle(sid) ==
  /\ isExpanded
  /\ sid \in DisplayedSuggestions
  /\ selectedSuggestions' =
       IF \E j \in 1..Len(selectedSuggestions) : selectedSuggestions[j] = sid
       THEN SelectSeq(selectedSuggestions, LAMBDA x : x # sid)
       ELSE Append(selectedSuggestions, sid)
  /\ UNCHANGED <<isExpanded, input, aiSuggestions, parsedTask>>
  /\ UNCHANGED <<sessionVars, composeVars, requestVars, endpointVars, heuristicVars>>

\* the synchronous part of handleAddTask for the primary draft: the optimistic
\* entry is added and createTask is awaited.  The handler keeps the onAddTask
\* of the render it was created in, whose `tasks` is the list at this moment.
\* selected and shown are ghost fields: the selection set and the suggestions
\* on display when the composition started.
StartComposition(kind, drafts) ==
  /\ Len(comps) < MaxComps
  /\ comps' = Append(comps, [kind |-> kind, pc |-> "primary", snapshot |-> tasks,
                             label |-> MainLabel(parsedTask, input),
                             drafts |-> drafts, primary |-> Len(pcalls) + 1,
                             selected |-> selectedSuggestions,
                             shown |-> DisplayedSuggestions])
  /\ tempCount' = tempCount + 1
  /\ tasks' = addTaskOptimistic(tasks, tempCount + 1, MainLabel(parsedTask, input), 0)
  /\ pcalls' = Append(pcalls, finalTaskData(Len(comps) + 1, "primary",
                                             MainTaskData(MainLabel(parsedTask, input)),
                                             tempCount + 1, 0))
  /\ UNCHANGED <<db, nextId, changed, notifications, selectedProject, day>>
  /\ UNCHANGED <<formVars, sessionVars, requestVars, endpointVars, heuristicVars>>

\* the 'Add Selected' button, shown next to a non-empty suggestion list when
\* something is selected
handleAddSelectedSuggestions ==
  /\ isExpanded
  /\ DisplayedSuggestions # {}
  /\ Trim(input) # << >> /\ selectedSuggestions # << >>
  /\ StartComposition("selected",
       SubtaskDrafts(selectedSuggestions, SuggestionsOf(parsedTask, aiSuggestions)))

\* handleSuggestionClick(suggestion): one implied subtask
handleSuggestionClick(suggestion) ==
  /\ isExpanded
  /\ Trim(input) # << >>
  /\ \E sid \in DisplayedSuggestions : sid.text = suggestion
  /\ StartComposition("click", <<suggestion>>)

\* handleAddTask is called for each draft in turn within one turn of the event
\* loop; consecutive Date.now() values are equal (sameMs) or increase
RECURSIVE AddSubtasks(_, _, _, _, _, _)
AddSubtasks(list, log, drafts, k, parent, temps) ==
  IF drafts = << >> THEN [list |-> list, log |-> log]
  ELSE AddSubtasks(addTaskOptimistic(list, Head(temps), Head(drafts), parent),
                   Append(log, finalTaskData(k, "subtask", SubtaskData(Head(drafts), parent),
                                             Head(temps), 0)),
                   Tail(drafts), k, parent, Tail(temps))

SubtaskTemps(n, sameMs) == [j \in 1..n |-> IF sameMs THEN tempCount + 1 ELSE tempCount + j]

\* createTask of the primary draft settles; handleAddTask finishes and the
\* composer continues after its await (lines 263-324 / 354-381)
PrimaryResolves(k, outcome, sameMs) ==
  /\ k \in 1..Len(comps)
  /\ comps[k].pc = "primary"
  /\ LET p == comps[k].primary
         temp == TempId(pcalls[p].temp)
     IN \/ /\ outcome = "failed"
           /\ tasks' = revertOptimisticUpdate(tasks, comps[k].snapshot)
           /\ notifications' = showOptimisticUpdateError(notifications, p)
           /\ pcalls' = [pcalls EXCEPT ![p].status = "failed"]
           /\ comps' = [comps EXCEPT ![k].pc = "done"]
           /\ ResetForm
           /\ UNCHANGED <<db, nextId, changed, tempCount>>
        \/ /\ outcome \in {"ok", "noid"}
           /\ UNCHANGED notifications
           /\ db' = db \cup {[id |-> nextId, label |-> pcalls[p].label, parent |-> 0]}
           /\ nextId' = nextId + 1
           /\ changed' = TRUE
           /\ LET created == IF outcome = "ok" THEN nextId ELSE 0
                  updated == updateTaskOptimistic(tasks, temp,
                               IF outcome = "ok" THEN RealId(nextId) ELSE UndefinedId)
                  settled == [pcalls EXCEPT ![p].status = outcome, ![p].id = created]
                  drafts == IF HasId(created) THEN comps[k].drafts ELSE << >>
                  added == AddSubtasks(updated, settled, drafts, k, created,
                                       SubtaskTemps(Len(drafts), sameMs))
              IN /\ tasks' = added.list
                 /\ pcalls' = added.log
                 /\ tempCount' = IF drafts = << >> THEN tempCount
                                 ELSE IF sameMs THEN tempCount + 1
                                 ELSE tempCount + Len(drafts)
                 /\ IF drafts = << >>
                    THEN /\ comps' = [comps EXCEPT ![k].pc = "done"]
                         /\ ResetForm
                    ELSE /\ comps' = [comps EXCEPT ![k].pc = "subtasks"]
                         /\ UNCHANGED formVars
  /\ UNCHANGED <<selectedProject, day>>
  /\ UNCHANGED <<sessionVars, requestVars, endpointVars, heuristicVars>>

\* createTask of a subtask draft settles; when it was the last one of its
\* batch, Promise.allSettled resolves and the form is reset
SubtaskResolves(c, outcome) ==
  /\ c \in 1..Len(pcalls)
  /\ pcalls[c].role = "subtask" /\ pcalls[c].status = "pending"
  /\ pcalls[c].retryOf = 0
  /\ LET k == pcalls[c].comp
         last == \A o \in 1..Len(pcalls) :
                   (o # c /\ pcalls[o].comp = k /\ pcalls[o].retryOf = 0)
                     => pcalls[o].status # "pending"
     IN /\ \/ /\ outcome = "failed"
              /\ tasks' = revertOptimisticUpdate(tasks, comps[k].snapshot)
              /\ notifications' = showOptimisticUpdateError(notifications, c)
              /\ pcalls' = [pcalls EXCEPT ![c].status = "failed"]
              /\ UNCHANGED <<db, nextId, changed>>
           \/ /\ outcome = "ok"
              /\ UNCHANGED notifications
              /\ db' = db \cup {[id |-> nextId, label |-> pcalls[c].label,
                                 parent |-> pcalls[c].parent]}
              /\ nextId' = nextId + 1
              /\ changed' = TRUE
              /\ tasks' = updateTaskOptimistic(tasks, TempId(pcalls[c].temp), RealId(nextId))
              /\ pcalls' = [pcalls EXCEPT ![c].status = "ok", ![c].id = nextId]
        /\ IF last
           THEN /\ comps' = [comps EXCEPT ![k].pc = "done"]
                /\ ResetForm
           ELSE UNCHANGED <<comps, formVars>>
  /\ UNCHANGED <<tempCount, selectedProject, day>>
  /\ UNCHANGED <<sessionVars, requestVars, endpointVars, heuristicVars>>

\* the subscription callback after a change of the table: the list is
\* replaced by the rows of the persistence layer
SubscriptionPush ==
  /\ changed
  /\ changed' = FALSE
  /\ tasks' = RowsDescending(db)
  /\ UNCHANGED <<db, nextId, tempCount, comps, pcalls, notifications, selectedProject, day>>
  /\ UNCHANGED <<formVars, sessionVars, requestVars, endpointVars, heuristicVars>>

\* the Retry button of a notification (NotificationItem): action.onClick()
\* runs handleAddTask(finalTaskData) of the failed call up to its await, then
\* onRemove(id) removes the notification
RetryClick(n) ==
  /\ n \in 1..Len(notifications)
  /\ notifications[n].action = "Retry"
  /\ Cardinality({c \in 1..Len(pcalls) : pcalls[c].retryOf # 0}) < MaxRetryCalls
  /\ LET failed == pcalls[notifications[n].call]
     IN /\ tempCount' = tempCount + 1
        /\ tasks' = addTaskOptimistic(tasks, tempCount + 1, failed.label, failed.parent)
        /\ pcalls' = Append(pcalls,
                            finalTaskData(failed.comp, failed.role,
                                          [label |-> failed.label, parent |-> failed.parent,
                                           projectId |-> failed.projectId, date |-> failed.date,
                                           priority |-> failed.priority,
                                           metadata |-> failed.metadata],
                                          tempCount + 1, notifications[n].call))
  /\ notifications' = RemoveAt(notifications, {n})
  /\ UNCHANGED <<db, nextId, changed, comps, selectedProject, day>>
  /\ UNCHANGED <<formVars, sessionVars, requestVars, endpointVars, heuristicVars>>

\* createTask of a replayed call settles; nobody awaits the promise of the
\* replay, and its handler is the one of the render of the failed call
RetryResolves(c, outcome) ==
  /\ c \in 1..Len(pcalls)
  /\ pcalls[c].retryOf # 0 /\ pcalls[c].status = "pending"
  /\ \/ /\ outcome = "failed"
        /\ tasks' = revertOptimisticUpdate(tasks, comps[pcalls[c].comp].snapshot)
        /\ notifications' = showOptimisticUpdateError(notifications, c)
        /\ pcalls' = [pcalls EXCEPT ![c].status = "failed"]
        /\ UNCHANGED <<db, nextId, changed>>
     \/ /\ outcome = "ok"
        /\ db' = db \cup {[id |-> nextId, label |-> pcalls[c].label,
                           parent |-> pcalls[c].parent]}
        /\ nextId' = nextId + 1
        /\ changed' = TRUE
        /\ tasks' = updateTaskOptimistic(tasks, TempId(pcalls[c].temp), RealId(nextId))
        /\ pcalls' = [pcalls EXCEPT ![c].status = "ok", ![c].id = nextId]
        /\ UNCHANGED notifications
  /\ UNCHANGED <<tempCount, comps, selectedProject, day>>
  /\ UNCHANGED <<formVars, sessionVars, requestVars, endpointVars, heuristicVars>>

\* removeNotification(id): the close button, or the timer that addNotification
\* arms for a notification that is not persistent
removeNotification(n) ==
  /\ n \in 1..Len(notifications)
  /\ notifications' = RemoveAt(notifications, {n})
  /\ UNCHANGED <<tasks, db, nextId, changed, tempCount, comps, pcalls, selectedProject, day>>
  /\ UNCHANGED <<formVars, sessionVars, requestVars, endpointVars, heuristicVars>>

\* midnight: moment() formats the next day from now on
NextDay ==
  /\ day < MaxDay
  /\ day' = day + 1
  /\ UNCHANGED <<tasks, db, nextId, changed, tempCount, comps, pcalls, notifications,
                 selectedProject>>
  /\ UNCHANGED <<formVars, sessionVars, requestVars, endpointVars, heuristicVars>>

FormRequest(n, feature) ==
  [seq |-> n, text |-> TxtCallSara, feature |-> feature, superseded |-> FALSE]

\* states of the form in which the composer can be used: an expanded form
\* with a text and a displayed parse result and/or contextual suggestions
ComposeForms ==
  {f \in [input : {TxtCallSara},
          parsedTask : {NoResult} \cup {Result(FormRequest(1, "smart-parse"), sg) : sg \in SuggestionLists},
          aiSuggestions : {NoResult} \cup {Result(FormRequest(2, "contextual-suggestions"), sg) : sg \in SuggestionLists}] :
     f.parsedTask # NoResult \/ f.aiSuggestions # NoResult}

ComposeOutcomes == {"ok", "noid", "failed"}

NextCompose ==
  \/ \E sid \in [index : 1..2, text : {Sugg1, Sugg2}] : handleSuggestionToggle(sid)
  \/ handleAddSelectedSuggestions
  \/ \E suggestion \in {Sugg1, Sugg2} : handleSuggestionClick(suggestion)
  \/ \E k \in 1..MaxComps, outcome \in ComposeOutcomes, sameMs \in BOOLEAN :
       PrimaryResolves(k, outcome, sameMs)
  \/ \E c \in 1..(MaxComps * 3), outcome \in {"ok", "failed"} : SubtaskResolves(c, outcome)
  \/ SubscriptionPush

\* compositions whose persistence calls fail, and the notifications' Retry
NextRetry ==
  \/ \E suggestion \in {Sugg1, Sugg2} : handleSuggestionClick(suggestion)
  \/ \E k \in 1..MaxComps, outcome \in ComposeOutcomes, sameMs \in BOOLEAN :
       PrimaryResolves(k, outcome, sameMs)
  \/ \E c \in 1..(MaxComps * 3), outcome \in {"ok", "failed"} : SubtaskResolves(c, outcome)
  \/ \E n \in 1..(MaxComps * 3 + MaxRetryCalls) : RetryClick(n)
  \/ \E c \in 1..(MaxComps * 3 + MaxRetryCalls), outcome \in {"ok", "failed"} :
       RetryResolves(c, outcome)
  \/ \E n \in 1..(MaxComps * 3 + MaxRetryCalls) : removeNotification(n)
  \/ NextDay
  \/ SubscriptionPush

\* the form with its check boxes: selecting, typing, and every way of
\* submitting or leaving
NextSelection ==
  \/ \E sid \in [index : 1..2, text : {Sugg1, Sugg2}] : handleSuggestionToggle(sid)
  \/ \E value \in ParseValues : handleInputChange(value)
  \/ Expand
  \/ handleSubmit
  \/ CancelClick
  \/ handleAddSelectedSuggestions
  \/ \E k \in 1..MaxComps, outcome \in ComposeOutcomes, sameMs \in BOOLEAN :
       PrimaryResolves(k, outcome, sameMs)
  \/ \E c \in 1..(MaxComps * 3), outcome \in {"ok", "failed"} : SubtaskResolves(c, outcome)

(***************************************************************************)
(* ai-client.js: makeRequest                                               *)
(***************************************************************************)
NoError == [name |-> "none", type |-> "none", status |-> 0]

\* what one fetch() can do: resolve with a status, reject without a response,
\* or be aborted by the timer that makeRequest armed
HttpStatuses == {200, 400, 404, 429, 500, 503}
FetchOutcomes ==
  {[kind |-> "response", status |-> st] : st \in HttpStatuses}
  \cup {[kind |-> "network", status |-> 0], [kind |-> "abort", status |-> 0]}

\* response.ok
ResponseOk(status) == status >= 200 /\ status <= 299

\* the AIClientError thrown at lines 108-113 for a response that is not ok
HttpError(status) ==
  [name |-> "AIClientError",
   type |-> IF status = 429 THEN "RATE_LIMIT_ERROR" ELSE "API_ERROR",
   status |-> status]

\* the rejection value of fetch() on a network failure: no type, no status
FetchRejection == [name |-> "TypeError", type |-> "undefined", status |-> 0]

TimeoutError == [name |-> "AIClientError", type |-> "TIMEOUT_ERROR", status |-> 0]

\* a retry test that ignores the status of an API_ERROR
shouldRetryAnyStatus(error) ==
  error.type \in {"NETWORK_ERROR", "TIMEOUT_ERROR", "API_ERROR"}

shouldRetry(error) ==
  \/ error.type = "NETWORK_ERROR"
  \/ error.type = "TIMEOUT_ERROR"
  \/ (error.type = "API_ERROR" /\ error.status >= 500)

\* classifyError(error, response); hasResponse is FALSE when the second
\* argument is omitted, as in makeRequest
classifyError(error, hasResponse, status) ==
  IF error.name = "AIClientError" THEN error
  ELSE IF ~hasResponse
       THEN [name |-> "AIClientError", type |-> "NETWORK_ERROR", status |-> 0]
  ELSE IF status = 429
       THEN [name |-> "AIClientError", type |-> "RATE_LIMIT_ERROR", status |-> status]
  ELSE IF status >= 400 /\ status < 500
       THEN [name |-> "AIClientError", type |-> "VALIDATION_ERROR", status |-> status]
  ELSE IF status >= 500
       THEN [name |-> "AIClientError", type |-> "API_ERROR", status |-> status]
  ELSE [name |-> "AIClientError", type |-> "UNKNOWN_ERROR", status |-> status]

\* a taskProcessor method calls makeRequest(url, options): retries defaults
\* to MAX_RETRIES, the timer is armed with options.timeout || DEFAULT_TIMEOUT
StartCall(timeout) ==
  /\ mrPc \in {"idle", "returned", "thrown"}
  /\ mrPc' = "fetch"
  /\ mrRetries' = MAX_RETRIES
  /\ mrTimeout' = IF timeout # 0 THEN timeout ELSE DEFAULT_TIMEOUT
  /\ mrHist' = << >>
  /\ mrDelays' = << >>
  /\ mrError' = NoError
  /\ UNCHANGED <<formVars, sessionVars, composeVars, endpointVars, heuristicVars>>

\* the awaited fetch() settles: lines 104-130
FetchSettles(outcome) ==
  /\ mrPc = "fetch"
  /\ mrHist' = Append(mrHist, outcome)
  /\ IF outcome.kind = "response" /\ ResponseOk(outcome.status)
     THEN /\ mrPc' = "returned"
          /\ UNCHANGED <<mrRetries, mrDelays, mrError>>
     ELSE LET aborted == outcome.kind = "abort"
              error == IF outcome.kind = "response" THEN HttpError(outcome.status)
                       ELSE FetchRejection
          IN IF aborted
             THEN /\ mrPc' = "thrown"
                  /\ mrError' = TimeoutError
                  /\ UNCHANGED <<mrRetries, mrDelays>>
             ELSE IF mrRetries > 0 /\ shouldRetry(error)
                  THEN /\ mrPc' = "delay"
                       /\ mrDelays' = Append(mrDelays, RETRY_DELAY * (MAX_RETRIES - mrRetries + 1))
                       /\ UNCHANGED <<mrRetries, mrError>>
                  ELSE /\ mrPc' = "thrown"
                       /\ mrError' = classifyError(error, FALSE, 0)
                       /\ UNCHANGED <<mrRetries, mrDelays>>
  /\ UNCHANGED mrTimeout
  /\ UNCHANGED <<formVars, sessionVars, composeVars, endpointVars, heuristicVars>>

\* a recursive call that passes retries on unchanged
DelayElapsesSameRetries ==
  /\ mrPc = "delay"
  /\ mrPc' = "fetch"
  /\ UNCHANGED <<mrRetries, mrTimeout, mrHist, mrDelays, mrError>>
  /\ UNCHANGED <<formVars, sessionVars, composeVars, endpointVars, heuristicVars>>

\* the backoff delay is over: makeRequest(url, options, retries - 1)
DelayElapses ==
  /\ mrPc = "delay"
  /\ mrPc' = "fetch"
  /\ mrRetries' = mrRetries - 1
  /\ UNCHANGED <<mrTimeout, mrHist, mrDelays, mrError>>
  /\ UNCHANGED <<formVars, sessionVars, composeVars, endpointVars, heuristicVars>>

NextRequest ==
  \/ \E timeout \in {0, ParseTimeout} : StartCall(timeout)
  \/ \E outcome \in FetchOutcomes : FetchSettles(outcome)
  \/ DelayElapses

(***************************************************************************)
(* api/ai-task-processor.js: the heuristic parser and quick-match          *)
(* Confidence values are in units of 0.0001 (0.9 is 9000).  An optional    *)
(* value is a sequence: << >> when absent (undefined or null), <<v>> when  *)
(* present.                                                                *)
(***************************************************************************)
CACHE_DURATION == 300000

\* the alternatives of the word patterns of smartParseTask (lines 796-809)
RelativeDays == <<<<"t", "o", "d", "a", "y">>, <<"t", "o", "m", "o", "r", "r", "o", "w">>, <<"n", "e", "x", "t", " ", "w", "e", "e", "k">>, <<"n", "e", "x", "t", " ", "m", "o", "n", "t", "h">>>>
Weekdays == <<<<"m", "o", "n", "d", "a", "y">>, <<"t", "u", "e", "s", "d", "a", "y">>, <<"w", "e", "d", "n", "e", "s", "d", "a", "y">>, <<"t", "h", "u", "r", "s", "d", "a", "y">>, <<"f", "r", "i", "d", "a", "y">>, <<"s", "a", "t", "u", "r", "d", "a", "y">>, <<"s", "u", "n", "d", "a", "y">>>>
Months == <<<<"j", "a", "n", "u", "a", "r", "y">>, <<"f", "e", "b", "r", "u", "a", "r", "y">>, <<"m", "a", "r", "c", "h">>, <<"a", "p", "r", "i", "l">>, <<"m", "a", "y">>, <<"j", "u", "n", "e">>, <<"j", "u", "l", "y">>, <<"a", "u", "g", "u", "s", "t">>, <<"s", "e", "p", "t", "e", "m", "b", "e", "r">>, <<"o", "c", "t", "o", "b", "e", "r">>, <<"n", "o", "v", "e", "m", "b", "e", "r">>, <<"d", "e", "c", "e", "m", "b", "e", "r">>>>
TimeWords == <<<<"m", "o", "r", "n", "i", "n", "g">>, <<"a", "f", "t", "e", "r", "n", "o", "o", "n">>, <<"e", "v", "e", "n", "i", "n", "g">>, <<"n", "i", "g", "h", "t">>>>
HighPriorityWords == <<<<"u", "r", "g", "e", "n", "t">>, <<"a", "s", "a", "p">>, <<"i", "m", "p", "o", "r", "t", "a", "n", "t">>, <<"h", "i", "g", "h", " ", "p", "r", "i", "o", "r", "i", "t", "y">>, <<"c", "r", "i", "t", "i", "c", "a", "l">>>>
LowPriorityWords == <<<<"l", "o", "w", " ", "p", "r", "i", "o", "r", "i", "t", "y">>, <<"w", "h", "e", "n", " ", "p", "o", "s", "s", "i", "b", "l", "e">>, <<"e", "v", "e", "n", "t", "u", "a", "l", "l", "y">>>>
LeadingVerbs == <<<<"p", "l", "a", "n">>, <<"s", "c", "h", "e", "d", "u", "l", "e">>, <<"o", "r", "g", "a", "n", "i", "z", "e">>, <<"p", "r", "e", "p", "a", "r", "e">>, <<"d", "o">>, <<"c", "o", "m", "p", "l", "e", "t", "e">>>>

MatchesAny(s, words) == \E w \in 1..Len(words) : MatchesWord(s, words[w])

IsUpper(c) == \E i \in 1..Len(UpperCase) : UpperCase[i] = c

Digits == {"0", "1", "2", "3", "4", "5", "6", "7", "8", "9"}
Spaces == {" "}
LowerLetters == {LowerCase[i] : i \in 1..Len(LowerCase)}

\* the number of consecutive characters of `chars` from position p on
Run(s, p, chars) ==
  IF p < 1 \/ p > Len(s) THEN 0
  ELSE LET stops == {q \in p..Len(s) : s[q] \notin chars}
       IN IF stops = {} THEN Len(s) - p + 1
          ELSE (CHOOSE q \in stops : \A r \in stops : q <= r) - p

AllIn(s, a, n, chars) == \A x \in a..(a + n - 1) : s[x] \in chars

\* \b before position p
WordAt(s, p) == p \in 1..Len(s) /\ IsWordChar(s[p])
BoundaryAt(s, p) == WordAt(s, p - 1) # WordAt(s, p)

\* the result of String.prototype.match without the g flag: position and
\* length of match[0] and the text of group 1; NoMatch for null
NoMatch == [at |-> 0, len |-> 0, group |-> << >>]

\* /\b(w1|w2|...)\b/i at position i: the length of the first alternative that
\* matches there, or 0
WordsLenAt(s, i, words) ==
  LET ok(w) == /\ BoundaryAt(s, i)
               /\ i + Len(words[w]) - 1 <= Len(s)
               /\ BoundaryAt(s, i + Len(words[w]))
               /\ toLowerCase(SubSeq(s, i, i + Len(words[w]) - 1)) = words[w]
  IN IF \E w \in 1..Len(words) : ok(w)
     THEN Len(words[CHOOSE w \in 1..Len(words) : ok(w) /\ \A v \in 1..(w - 1) : ~ok(v)])
     ELSE 0

\* /\b(\d{1,2}\/\d{1,2}\/?\d{0,4})\b/ at position i: the quantifiers are
\* greedy, so the choices are tried from the longest to the shortest
SlashDateChoices ==
  [k \in 1..40 |-> <<2 - ((k - 1) \div 20), 2 - (((k - 1) \div 10) % 2),
                     1 - (((k - 1) \div 5) % 2), 4 - ((k - 1) % 5)>>]

SlashDateLenAt(s, i) ==
  LET len(t) == t[1] + 1 + t[2] + t[3] + t[4]
      ok(t) == /\ BoundaryAt(s, i)
               /\ i + len(t) - 1 <= Len(s)
               /\ AllIn(s, i, t[1], Digits)
               /\ s[i + t[1]] = "/"
               /\ AllIn(s, i + t[1] + 1, t[2], Digits)
               /\ (t[3] = 1 => s[i + t[1] + 1 + t[2]] = "/")
               /\ AllIn(s, i + t[1] + 1 + t[2] + t[3], t[4], Digits)
               /\ BoundaryAt(s, i + len(t))
      hit(k) == ok(SlashDateChoices[k])
  IN IF \E k \in 1..40 : hit(k)
     THEN len(SlashDateChoices[CHOOSE k \in 1..40 : hit(k) /\ \A v \in 1..(k - 1) : ~hit(v)])
     ELSE 0

\* /\b(january|...|december)\s+\d{1,2}\b/i at position i
MonthDayLenAt(s, i) ==
  LET sp(w) == Run(s, i + Len(Months[w]), Spaces)
      digitsAt(w) == i + Len(Months[w]) + sp(w)
      ok(w, n) == /\ BoundaryAt(s, i)
                  /\ i + Len(Months[w]) - 1 <= Len(s)
                  /\ toLowerCase(SubSeq(s, i, i + Len(Months[w]) - 1)) = Months[w]
                  /\ sp(w) >= 1
                  /\ digitsAt(w) + n - 1 <= Len(s)
                  /\ AllIn(s, digitsAt(w), n, Digits)
                  /\ BoundaryAt(s, digitsAt(w) + n)
      hit(w) == ok(w, 2) \/ ok(w, 1)
  IN IF \E w \in 1..Len(Months) : hit(w)
     THEN LET w == CHOOSE w \in 1..Len(Months) : hit(w) /\ \A v \in 1..(w - 1) : ~hit(v)
          IN Len(Months[w]) + sp(w) + (IF ok(w, 2) THEN 2 ELSE 1)
     ELSE 0

\* /\b(\d{1,2}:\d{2}\s?(am|pm)?)\b/i at position i
ClockChoices ==
  [k \in 1..8 |-> <<2 - ((k - 1) \div 4), 1 - (((k - 1) \div 2) % 2), 2 * (1 - ((k - 1) % 2))>>]

ClockLenAt(s, i) ==
  LET len(t) == t[1] + 3 + t[2] + t[3]
      ok(t) == /\ BoundaryAt(s, i)
               /\ i + len(t) - 1 <= Len(s)
               /\ AllIn(s, i, t[1], Digits)
               /\ s[i + t[1]] = ":"
               /\ AllIn(s, i + t[1] + 1, 2, Digits)
               /\ (t[2] = 1 => s[i + t[1] + 3] = " ")
               /\ (t[3] = 2 => toLowerCase(SubSeq(s, i + t[1] + 3 + t[2], i + t[1] + 4 + t[2]))
                                 \in {<<"a", "m">>, <<"p", "m">>})
               /\ BoundaryAt(s, i + len(t))
      hit(k) == ok(ClockChoices[k])
  IN IF \E k \in 1..8 : hit(k)
     THEN len(ClockChoices[CHOOSE k \in 1..8 : hit(k) /\ \A v \in 1..(k - 1) : ~hit(v)])
     ELSE 0

\* the leftmost match of a pattern and its text
Leftmost(s, LenAt(_, _)) ==
  LET hits == {i \in 1..Len(s) : LenAt(s, i) > 0}
  IN IF hits = {} THEN NoMatch
     ELSE LET i == CHOOSE i \in hits : \A j \in hits : i <= j
              n == LenAt(s, i)
          IN [at |-> i, len |-> n, group |-> SubSeq(s, i, i + n - 1)]

\* the first of the datePatterns that matches (the loop of lines 824-831)
DateMatch(s) ==
  LET relative == Leftmost(s, LAMBDA x, i : WordsLenAt(x, i, RelativeDays))
      weekday == Leftmost(s, LAMBDA x, i : WordsLenAt(x, i, Weekdays))
      slashes == Leftmost(s, SlashDateLenAt)
  IN IF relative # NoMatch THEN relative
     ELSE IF weekday # NoMatch THEN weekday
     ELSE IF slashes # NoMatch THEN slashes
     ELSE Leftmost(s, MonthDayLenAt)

\* the first of the timePatterns that matches (the loop of lines 834-841)
TimeMatch(s) ==
  LET clock == Leftmost(s, ClockLenAt)
  IN IF clock # NoMatch THEN clock ELSE Leftmost(s, LAMBDA x, i : WordsLenAt(x, i, TimeWords))

\* [A-Z][a-z]+ at position j: the position of its last character, or 0
NameEnd(s, j) ==
  IF j >= 1 /\ j <= Len(s) /\ IsUpper(s[j]) /\ Run(s, j + 1, LowerLetters) >= 1
  THEN j + Run(s, j + 1, LowerLetters)
  ELSE 0

\* what follows the names, from position p on: \b for the first person
\* pattern, \s+and\s+me\b for the second; the position of the last character
\* of the whole match, or 0
AfterNames(s, p, kind) ==
  IF kind = "with"
  THEN IF BoundaryAt(s, p) THEN p - 1 ELSE 0
  ELSE LET a == p + Run(s, p, Spaces)
           m == a + 3 + Run(s, a + 3, Spaces)
       IN IF /\ Run(s, p, Spaces) >= 1
             /\ a + 2 <= Len(s)
             /\ SubSeq(s, a, a + 2) = <<"a", "n", "d">>
             /\ Run(s, a + 3, Spaces) >= 1
             /\ m + 1 <= Len(s)
             /\ SubSeq(s, m, m + 1) = <<"m", "e">>
             /\ BoundaryAt(s, m + 2)
          THEN m + 1 ELSE 0

NoNames == [names |-> 0, end |-> 0]

\* [A-Z][a-z]+(?:\s+[A-Z][a-z]+)* from position j on, followed by the rest of
\* the pattern: as many names as the rest allows
RECURSIVE Names(_, _, _)
Names(s, j, kind) ==
  LET e == NameEnd(s, j)
      sp == Run(s, e + 1, Spaces)
      more == IF sp >= 1 THEN Names(s, e + 1 + sp, kind) ELSE NoNames
      fin == AfterNames(s, e + 1, kind)
  IN IF e = 0 THEN NoNames
     ELSE IF more.end > 0 THEN more
     ELSE IF fin > 0 THEN [names |-> e, end |-> fin]
     ELSE NoNames

\* the person patterns at position i: where group 1 starts, and the names
PersonAt(s, i, kind) ==
  IF kind = "with"
  THEN IF /\ i + 3 <= Len(s)
          /\ SubSeq(s, i, i + 3) = <<"w", "i", "t", "h">>
          /\ BoundaryAt(s, i)
          /\ Run(s, i + 4, Spaces) >= 1
       THEN [from |-> i + 4 + Run(s, i + 4, Spaces),
             found |-> Names(s, i + 4 + Run(s, i + 4, Spaces), kind)]
       ELSE [from |-> 0, found |-> NoNames]
  ELSE IF BoundaryAt(s, i)
       THEN [from |-> i, found |-> Names(s, i, kind)]
       ELSE [from |-> 0, found |-> NoNames]

\* input.match(pattern) for a person pattern
PersonMatch(s, kind) ==
  LET hits == {i \in 1..Len(s) :
                 /\ s[i] = "w" \/ IsUpper(s[i])
                 /\ PersonAt(s, i, kind).found.end > 0}
  IN IF hits = {} THEN NoMatch
     ELSE LET i == CHOOSE i \in hits : \A j \in hits : i <= j
              at == PersonAt(s, i, kind)
          IN [at |-> i, len |-> at.found.end - i + 1,
              group |-> SubSeq(s, at.from, at.found.names)]

\* text.replace(part, ''): the first occurrence of part is removed
replaceFirst(text, part) ==
  LET hits == {i \in 1..(Len(text) - Len(part) + 1) : SubSeq(text, i, i + Len(part) - 1) = part}
  IN IF part = << >> \/ hits = {} THEN text
     ELSE LET i == CHOOSE i \in hits : \A j \in hits : i <= j
          IN SubSeq(text, 1, i - 1) \o SubSeq(text, i + Len(part), Len(text))

\* taskName.replace(match[0], '').trim() when the pattern matched
Without(taskName, s, m) ==
  IF m = NoMatch THEN taskName
  ELSE Trim(replaceFirst(taskName, SubSeq(s, m.at, m.at + m.len - 1)))

\* text.replace(/\s+/g, ' ')
RECURSIVE CollapseSpaces(_)
CollapseSpaces(text) ==
  IF text = << >> THEN << >>
  ELSE IF IsSpace(Head(text))
       THEN <<" ">> \o CollapseSpaces(SubSeq(text, 1 + Run(text, 1, Spaces), Len(text)))
       ELSE <<Head(text)>> \o CollapseSpaces(Tail(text))

\* text.replace(/^(plan|schedule|organize|prepare|do|complete)\s+/i, '')
StripLeadingVerb(text) ==
  LET ok(w) == /\ Len(LeadingVerbs[w]) < Len(text)
               /\ toLowerCase(SubSeq(text, 1, Len(LeadingVerbs[w]))) = LeadingVerbs[w]
               /\ Run(text, Len(LeadingVerbs[w]) + 1, Spaces) >= 1
  IN IF \E w \in 1..Len(LeadingVerbs) : ok(w)
     THEN LET w == CHOOSE w \in 1..Len(LeadingVerbs) : ok(w) /\ \A v \in 1..(w - 1) : ~ok(v)
              n == Len(LeadingVerbs[w]) + Run(text, Len(LeadingVerbs[w]) + 1, Spaces)
          IN SubSeq(text, n + 1, Len(text))
     ELSE text

\* taskName after the extraction loops and the clean-up of lines 859-861,
\* given the matches of the date, the time and the two person patterns
TaskNameOf(s, date, time, withName, nameAndMe) ==
  CHOOSE taskName \in
    {StripLeadingVerb(Trim(CollapseSpaces(afterAndMe))) :
       afterAndMe \in
         {Without(afterWith, s, nameAndMe) :
            afterWith \in
              {Without(afterTime, s, withName) :
                 afterTime \in
                   {Without(afterDate, s, time) :
                      afterDate \in {Without(s, s, date)}}}}} : TRUE

\* people after the loop of lines 851-857
PeopleOf(withName, nameAndMe) ==
  (IF withName # NoMatch THEN <<withName.group>> ELSE << >>)
  \o (IF nameAndMe # NoMatch THEN <<nameAndMe.group>> ELSE << >>)

\* the category table of inferCategory, in key order
Categories == <<[category |-> "work", keywords |-> <<<<"m", "e", "e", "t", "i", "n", "g">>, <<"p", "r", "o", "j", "e", "c", "t">>, <<"p", "r", "e", "s", "e", "n", "t", "a", "t", "i", "o", "n">>, <<"e", "m", "a", "i", "l">>, <<"c", "a", "l", "l">>, <<"d", "e", "a", "d", "l", "i", "n", "e">>>>],
               [category |-> "personal", keywords |-> <<<<"f", "a", "m", "i", "l", "y">>, <<"f", "r", "i", "e", "n", "d">>, <<"h", "o", "m", "e">>, <<"h", "e", "a", "l", "t", "h">>, <<"e", "x", "e", "r", "c", "i", "s", "e">>, <<"h", "o", "b", "b", "y">>>>],
               [category |-> "shopping", keywords |-> <<<<"b", "u", "y">>, <<"p", "u", "r", "c", "h", "a", "s", "e">>, <<"s", "h", "o", "p">>, <<"g", "r", "o", "c", "e", "r", "y">>, <<"s", "t", "o", "r", "e">>>>],
               [category |-> "health", keywords |-> <<<<"d", "o", "c", "t", "o", "r">>, <<"a", "p", "p", "o", "i", "n", "t", "m", "e", "n", "t">>, <<"e", "x", "e", "r", "c", "i", "s", "e">>, <<"g", "y", "m">>, <<"m", "e", "d", "i", "c", "i", "n", "e">>>>],
               [category |-> "finance", keywords |-> <<<<"p", "a", "y">>, <<"b", "i", "l", "l">>, <<"b", "u", "d", "g", "e", "t">>, <<"b", "a", "n", "k">>, <<"t", "a", "x">>, <<"m", "o", "n", "e", "y">>>>]>>

inferCategory(s) ==
  LET hit(c) == \E k \in 1..Len(Categories[c].keywords) :
                  includes(toLowerCase(s), Categories[c].keywords[k])
  IN IF \E c \in 1..Len(Categories) : hit(c)
     THEN Categories[CHOOSE c \in 1..Len(Categories) :
                       hit(c) /\ \A d \in 1..(c - 1) : ~hit(d)].category
     ELSE "general"

generateSmartTags(s) ==
  LET has(w) == includes(toLowerCase(s), w)
  IN (IF has(<<"u", "r", "g", "e", "n", "t">>) \/ has(<<"a", "s", "a", "p">>) THEN <<"urgent">> ELSE << >>)
     \o (IF has(<<"m", "e", "e", "t", "i", "n", "g">>) \/ has(<<"c", "a", "l", "l">>) THEN <<"meeting">> ELSE << >>)
     \o (IF has(<<"e", "m", "a", "i", "l">>) \/ has(<<"m", "e", "s", "s", "a", "g", "e">>) THEN <<"communication">> ELSE << >>)
     \o (IF has(<<"b", "u", "y">>) \/ has(<<"p", "u", "r", "c", "h", "a", "s", "e">>) THEN <<"shopping">> ELSE << >>)

\* the keyword table of estimateDuration, in key order
Durations == <<[duration |-> "15 minutes", keywords |-> <<<<"q", "u", "i", "c", "k">>, <<"b", "r", "i", "e", "f">>, <<"s", "h", "o", "r", "t">>>>],
              [duration |-> "30 minutes", keywords |-> <<<<"c", "a", "l", "l">>, <<"s", "t", "a", "n", "d", "u", "p">>, <<"c", "h", "e", "c", "k", "-", "i", "n">>>>],
              [duration |-> "1 hour", keywords |-> <<<<"m", "e", "e", "t", "i", "n", "g">>, <<"a", "p", "p", "o", "i", "n", "t", "m", "e", "n", "t">>, <<"r", "e", "v", "i", "e", "w">>>>],
              [duration |-> "2 hours", keywords |-> <<<<"p", "r", "o", "j", "e", "c", "t", " ", "w", "o", "r", "k">>, <<"d", "e", "e", "p", " ", "w", "o", "r", "k">>, <<"a", "n", "a", "l", "y", "s", "i", "s">>>>],
              [duration |-> "4 hours", keywords |-> <<<<"w", "o", "r", "k", "s", "h", "o", "p">>, <<"t", "r", "a", "i", "n", "i", "n", "g">>, <<"m", "a", "j", "o", "r", " ", "t", "a", "s", "k">>>>],
              [duration |-> "1 day", keywords |-> <<<<"p", "r", "o", "j", "e", "c", "t">>, <<"r", "e", "s", "e", "a", "r", "c", "h">>, <<"p", "l", "a", "n", "n", "i", "n", "g">>>>]>>

estimateDuration(s) ==
  LET hit(d) == \E k \in 1..Len(Durations[d].keywords) :
                  includes(toLowerCase(s), Durations[d].keywords[k])
  IN IF \E d \in 1..Len(Durations) : hit(d)
     THEN Durations[CHOOSE d \in 1..Len(Durations) :
                      hit(d) /\ \A e \in 1..(d - 1) : ~hit(e)].duration
     ELSE "30 minutes"

\* a + b of two doubles.  Numbers between 0 and 1 are written in units of
\* 0.0001, rounded down, so that 0.7999999999999999 is 7999 and 0.8 is 8000.
\* Of the sums calculateConfidence can form, 0.7 + 0.1 is the one whose
\* double is not the double of the decimal sum: it is 0.7999999999999999, and
\* the sums that follow it are 0.8999999999999999 and 0.9999999999999999.
plus(a, b) ==
  IF a = 7000 /\ b = 1000 THEN 7999 ELSE a + b

\* calculateConfidence with the bonus of the date given for the time as well
calculateConfidenceTimeAsDate(s, date, time, peopleCount) ==
  LET c1 == IF date # << >> THEN plus(5000, 2000) ELSE 5000
      c2 == IF time # << >> THEN plus(c1, 2000) ELSE c1
      c3 == IF peopleCount > 0 THEN plus(c2, 1000) ELSE c2
      c4 == IF Len(s) > 10 THEN plus(c3, 1000) ELSE c3
  IN Min(c4, 10000)

\* calculateConfidence(input, date, time, peopleCount); date and time are
\* << >> for null
calculateConfidence(s, date, time, peopleCount) ==
  LET c1 == IF date # << >> THEN plus(5000, 2000) ELSE 5000
      c2 == IF time # << >> THEN plus(c1, 1000) ELSE c1
      c3 == IF peopleCount > 0 THEN plus(c2, 1000) ELSE c2
      c4 == IF Len(s) > 10 THEN plus(c3, 1000) ELSE c3
  IN Min(c4, 10000)

\* a response body: every builder of the endpoint sets success; aiPowered,
\* fastResponse and cached are FALSE when the key is absent; parsed is the
\* `parsed` object, flat the smart-parse keys found at the top level, source
\* and feature are ghost fields naming the builder
Body(success, aiPowered, fastResponse, parsed, flat, confidence, source, feature) ==
  [success |-> success, aiPowered |-> aiPowered, fastResponse |-> fastResponse,
   cached |-> FALSE, parsed |-> parsed, flat |-> flat, confidence |-> confidence,
   source |-> source, feature |-> feature]

\* text || other for strings: the empty string is falsy
OrText(text, other) == IF text # << >> THEN text ELSE other

\* smartParseTask(input); date and time are << >> for null and <<text>>
\* otherwise; the suggestions are not part of the model
smartParseTask(s) ==
  LET ParseResult(dateMatch, timeMatch, withName, nameAndMe) ==
        LET date == IF dateMatch = NoMatch THEN << >> ELSE <<dateMatch.group>>
            time == IF timeMatch = NoMatch THEN << >> ELSE <<timeMatch.group>>
            priority == IF MatchesAny(s, HighPriorityWords) THEN "high"
                        ELSE IF MatchesAny(s, LowPriorityWords) THEN "low"
                        ELSE "medium"
            people == PeopleOf(withName, nameAndMe)
        IN Body(TRUE, FALSE, FALSE,
                <<[taskName |-> OrText(TaskNameOf(s, dateMatch, timeMatch, withName, nameAndMe), s),
                   date |-> date, time |-> time,
                   priority |-> priority, people |-> people,
                   category |-> inferCategory(s), tags |-> generateSmartTags(s),
                   estimatedDuration |-> estimateDuration(s)]>>,
                << >>,
                <<calculateConfidence(s, date, time, Len(people))>>,
                "heuristic", "smart-parse")
  IN CHOOSE result \in {ParseResult(dateMatch, timeMatch, withName, nameAndMe) :
                          dateMatch \in {DateMatch(s)}, timeMatch \in {TimeMatch(s)},
                          withName \in {PersonMatch(s, "with")},
                          nameAndMe \in {PersonMatch(s, "and me")}} : TRUE

\* the quickPatterns table, in key order ("undefined": the key is absent)
QuickPatterns == <<[pattern |-> <<"b", "u", "y", " ">>, category |-> "shopping", tags |-> <<"shopping">>, priority |-> "medium", estimatedDuration |-> "undefined"],
                  [pattern |-> <<"c", "a", "l", "l", " ">>, category |-> "personal", tags |-> <<"communication">>, priority |-> "medium", estimatedDuration |-> "undefined"],
                  [pattern |-> <<"e", "m", "a", "i", "l", " ">>, category |-> "work", tags |-> <<"communication", "work">>, priority |-> "medium", estimatedDuration |-> "undefined"],
                  [pattern |-> <<"m", "e", "e", "t", "i", "n", "g", " ">>, category |-> "work", tags |-> <<"meeting", "work">>, priority |-> "high", estimatedDuration |-> "1 hour"],
                  [pattern |-> <<"u", "r", "g", "e", "n", "t", " ">>, category |-> "undefined", tags |-> <<"urgent">>, priority |-> "high", estimatedDuration |-> "undefined"],
                  [pattern |-> <<"d", "o", "c", "t", "o", "r", " ">>, category |-> "health", tags |-> <<"health", "appointment">>, priority |-> "high", estimatedDuration |-> "undefined"],
                  [pattern |-> <<"g", "y", "m", " ">>, category |-> "health", tags |-> <<"exercise", "health">>, priority |-> "medium", estimatedDuration |-> "1 hour"]>>

OrDefault(value, default) == IF value = "undefined" THEN default ELSE value

\* a quick-match that is tried for every feature
getQuickParseResultAnyFeature(s, feature) ==
  LET lower == Trim(toLowerCase(s))
      hit(k) == startsWith(lower, QuickPatterns[k].pattern)
  IN IF \E k \in 1..Len(QuickPatterns) : hit(k)
     THEN LET d == QuickPatterns[CHOOSE k \in 1..Len(QuickPatterns) :
                                   hit(k) /\ \A j \in 1..(k - 1) : ~hit(j)]
          IN <<Body(TRUE, FALSE, TRUE,
                    <<[taskName |-> OrText(Trim(slice(s, Len(d.pattern))), s),
                       date |-> << >>, time |-> << >>,
                       priority |-> OrDefault(d.priority, "medium"), people |-> << >>,
                       category |-> OrDefault(d.category, "general"),
                       tags |-> d.tags,
                       estimatedDuration |-> OrDefault(d.estimatedDuration, "30 minutes")]>>,
                    << >>, <<9000>>, "quick", "smart-parse")>>
     ELSE << >>

\* getQuickParseResult(input, feature): << >> is null
getQuickParseResult(s, feature) ==
  IF feature # "smart-parse" THEN << >>
  ELSE LET lower == Trim(toLowerCase(s))
           hit(k) == startsWith(lower, QuickPatterns[k].pattern)
       IN IF \E k \in 1..Len(QuickPatterns) : hit(k)
          THEN LET d == QuickPatterns[CHOOSE k \in 1..Len(QuickPatterns) :
                                        hit(k) /\ \A j \in 1..(k - 1) : ~hit(j)]
               IN <<Body(TRUE, FALSE, TRUE,
                         <<[taskName |-> OrText(Trim(slice(s, Len(d.pattern))), s),
                            date |-> << >>, time |-> << >>,
                            priority |-> OrDefault(d.priority, "medium"), people |-> << >>,
                            category |-> OrDefault(d.category, "general"),
                            tags |-> d.tags,
                            estimatedDuration |-> OrDefault(d.estimatedDuration, "30 minutes")]>>,
                         << >>, <<9000>>, "quick", "smart-parse")>>
          ELSE << >>

\* the texts given to the parsing functions: blank texts, and sentences made
\* of a beginning, a person, a date and a time
HeuristicInputs ==
  LET Heads == {<<"C", "a", "l", "l", " ", "S", "a", "r", "a", "h">>, <<"p", "l", "a", "n", " ", "t", "r", "i", "p">>, <<" ", " ", "B", "U", "Y", " ", "m", "i", "l", "k">>, <<"E", "m", "a", "i", "l">>}
      PersonParts == {<< >>, <<" ", "w", "i", "t", "h", " ", "A", "l">>, <<" ", "A", "l", " ", "a", "n", "d", " ", "m", "e">>}
      DateParts == <<<<" ", "t", "o", "m", "o", "r", "r", "o", "w">>, <<" ", "1", "/", "2">>, <<" ", "m", "a", "y", " ", "5">>>>
      TimeParts == <<<<" ", "a", "t", " ", "3", "p", "m">>, <<" ", "a", "t", " ", "3", ":", "0", "0", "p", "m">>, <<" ", "m", "o", "r", "n", "i", "n", "g">>>>
      BlankInputs == {<< >>, <<" ">>, <<" ", " ", " ">>, <<" ", " ", " ", " ", " ", " ", " ", " ", " ", " ", " ">>}
  IN BlankInputs
     \cup {h \o q \o d \o t : h \in Heads, q \in PersonParts,
                               d \in {<< >>, DateParts[1]}, t \in {<< >>, TimeParts[3]}}
     \cup {h \o d \o t : h \in Heads,
                          d \in {<< >>} \cup {DateParts[k] : k \in 1..Len(DateParts)},
                          t \in {<< >>} \cup {TimeParts[k] : k \in 1..Len(TimeParts)}}

NoCall == [fn |-> "none", feature |-> "none", out |-> << >>]

\* smartParseTask(input) is called
CallSmartParseTask ==
  /\ hResult = NoCall
  /\ hResult' = [fn |-> "smartParseTask", feature |-> "smart-parse",
                 out |-> <<smartParseTask(hInput)>>]
  /\ UNCHANGED hInput
  /\ UNCHANGED <<formVars, sessionVars, composeVars, requestVars, endpointVars>>

\* getQuickParseResult(input, feature) is called
CallGetQuickParseResult(feature) ==
  /\ hResult = NoCall
  /\ hResult' = [fn |-> "getQuickParseResult", feature |-> feature,
                 out |-> getQuickParseResult(hInput, feature)]
  /\ UNCHANGED hInput
  /\ UNCHANGED <<formVars, sessionVars, composeVars, requestVars, endpointVars>>

NextHeuristic ==
  \/ CallSmartParseTask
  \/ \E feature \in {"smart-parse", "task-breakdown"} : CallGetQuickParseResult(feature)

(***************************************************************************)
(* api/ai-task-processor.js: handler, processWithAI, processWithOpenAI;    *)
(* lib/ai-client.js: what taskProcessor.smartParse makes of the response   *)
(***************************************************************************)
MaxCalls == 2
ClockStep == 150000
MaxClock == 300000

\* `feature` of a request body; "undefined" when the key is missing
EndpointFeatures == {"smart-parse", "smart-prioritize", "undefined"}

\* cacheKey: `${feature || 'smart-parse'}_${userInput.toLowerCase().trim()}`
cacheKey(userInput, feature) ==
  <<OrDefault(feature, "smart-parse"), Trim(toLowerCase(userInput))>>

\* the string computations of the handler for each request the model sends,
\* evaluated once
KeyOf == [userInput \in UserInputs, feature \in EndpointFeatures |-> cacheKey(userInput, feature)]
QuickResultOf ==
  [userInput \in UserInputs, feature \in EndpointFeatures |-> getQuickParseResult(userInput, feature)]
HeuristicParseOf == [userInput \in UserInputs |-> smartParseTask(userInput)]

\* a freshness test that still accepts an entry of exactly CACHE_DURATION
CacheFreshInclusive(entry, now) == now - entry.timestamp <= CACHE_DURATION

\* Date.now() - cached.timestamp < CACHE_DURATION
CacheFresh(entry, now) == now - entry.timestamp < CACHE_DURATION

\* a lookup that never finds an entry
cacheGetNothing(cache, key) == << >>

\* responseCache.get(key): << >> when there is no entry
cacheGet(cache, key) ==
  IF \E e \in cache : e.key = key THEN <<CHOOSE e \in cache : e.key = key>> ELSE << >>

\* responseCache.set(key, {response, timestamp})
cacheSet(cache, key, response, now) ==
  {e \in cache : e.key # key} \cup {[key |-> key, response |-> response, timestamp |-> now]}

\* JSON objects the model can put in its answer: the keys of the prompt with
\* a confidence in range, with a confidence given as a percentage, without a
\* confidence, with the fields nested under `parsed` and a priority outside
\* the three levels, and with the keys `success` and `cached` of the response
\* of the endpoint
ObjTypical ==
  [success |-> << >>, cached |-> << >>, parsed |-> << >>,
   taskName |-> <<<<"r", "e", "a", "d", " ", "i", "t">>>>, date |-> <<<<"t", "o", "m", "o", "r", "r", "o", "w">>>>,
   priority |-> "high", confidence |-> <<8000>>]
ObjPercent == [success |-> << >>, cached |-> << >>, parsed |-> << >>, taskName |-> << >>, date |-> << >>, priority |-> "low", confidence |-> <<850000>>]
ObjNoConfidence == [success |-> << >>, cached |-> << >>, parsed |-> << >>, taskName |-> << >>, date |-> << >>, priority |-> "undefined", confidence |-> << >>]
ObjNested ==
  [success |-> << >>, cached |-> << >>,
   parsed |-> <<[taskName |-> << >>, date |-> << >>, time |-> << >>,
                 priority |-> "urgent", people |-> << >>,
                 category |-> "work", tags |-> << >>, estimatedDuration |-> "undefined"]>>,
   taskName |-> << >>, date |-> << >>,
   priority |-> "undefined", confidence |-> << >>]
ObjUnsuccessful == [success |-> <<FALSE>>, cached |-> <<TRUE>>, parsed |-> << >>, taskName |-> << >>, date |-> << >>, priority |-> "undefined", confidence |-> <<7000>>]
ModelObjects == {ObjTypical, ObjPercent, ObjNoConfidence, ObjNested, ObjUnsuccessful}
NoObject == [success |-> << >>, cached |-> << >>, parsed |-> << >>, taskName |-> << >>, date |-> << >>, priority |-> "undefined", confidence |-> << >>]

\* how the call of the model can end: a status that is not ok, a response
\* without content, content that is a JSON object, content with a JSON object
\* inside other text, content with no parsable object
ModelAnswers ==
  {[kind |-> k, obj |-> NoObject] : k \in {"status", "empty", "text"}}
  \cup {[kind |-> "json", obj |-> o] : o \in ModelObjects}
  \cup {[kind |-> "wrapped", obj |-> ObjTypical]}

\* processWithOpenAI after its fetch: threw, or the body {success: true,
\* aiPowered: true, ...parsed} in which the spread keys come last
processWithOpenAI(answer, feature) ==
  IF answer.kind \in {"status", "empty", "text"}
  THEN [threw |-> TRUE, body |-> << >>]
  ELSE [threw |-> FALSE,
        body |-> <<[Body(IF answer.obj.success = << >> THEN TRUE ELSE answer.obj.success[1],
                         TRUE, FALSE, answer.obj.parsed,
                         <<[taskName |-> answer.obj.taskName, date |-> answer.obj.date,
                            priority |-> answer.obj.priority]>>,
                         answer.obj.confidence, "model", feature)
                      EXCEPT !.cached = answer.obj.cached = <<TRUE>>]>>]

\* Array.isArray of a userInput that reached the switch: line 611 has called
\* userInput.toLowerCase(), which only a string has
IsArray(userInput) == FALSE

\* the switch of processWithAI (lines 654-672); smartPrioritize calls
\* tasks.map on its first argument, which throws for a string
HeuristicFor(userInput, feature) ==
  IF feature = "smart-prioritize"
  THEN IF IsArray(userInput)
       THEN [threw |-> FALSE,
             body |-> <<Body(TRUE, FALSE, FALSE, << >>, << >>, << >>, "heuristic", feature)>>]
       ELSE [threw |-> TRUE, body |-> << >>]
  ELSE IF feature \in {"task-breakdown", "contextual-suggestions", "smart-scheduling"}
  THEN [threw |-> FALSE,
        body |-> <<Body(TRUE, FALSE, FALSE, << >>, << >>, << >>, "heuristic", feature)>>]
  ELSE [threw |-> FALSE, body |-> <<HeuristicParseOf[userInput]>>]

\* the body of a 500 response: {error: ...}, no success key
ErrorBody == Body(FALSE, FALSE, FALSE, << >>, << >>, << >>, "error", "none")

\* taskProcessor.smartParse after makeRequest (ai-client.js:163-182): throws
\* for a status that is not ok and for a falsy data.success, otherwise builds
\* the ParsedTask with its defaults; userInput is the text of the request
smartParse(userInput, status, data) ==
  IF ~ResponseOk(status) \/ ~data.success
  THEN [threw |-> TRUE, taskName |-> << >>, date |-> << >>,
        priority |-> "none", confidence |-> 0,
        cached |-> FALSE, aiPowered |-> FALSE]
  ELSE [threw |-> FALSE,
        taskName |-> IF data.parsed = << >> THEN userInput
                     ELSE OrText(data.parsed[1].taskName, userInput),
        date |-> IF data.parsed = << >> THEN << >> ELSE data.parsed[1].date,
        priority |-> IF data.parsed = << >> THEN "medium"
                     ELSE OrDefault(data.parsed[1].priority, "medium"),
        confidence |-> IF data.confidence = << >> \/ data.confidence[1] = 0
                       THEN 5000 ELSE data.confidence[1],
        cached |-> data.cached, aiPowered |-> data.aiPowered]

\* one completed exchange; ran (the processors that ran for it) and hit are
\* ghost fields
Exchange(id, userInput, feature, status, body, ran, hit) ==
  [id |-> id, userInput |-> userInput, feature |-> feature,
   key |-> KeyOf[userInput, feature], status |-> status, body |-> body,
   ran |-> ran, hit |-> hit,
   parsedTask |-> smartParse(userInput, status, body)]

\* a handler whose catch block stores the error response
FinishStoringErrors(id, userInput, feature, result, ran) ==
  IF result.threw
  THEN /\ srvDone' = Append(srvDone, Exchange(id, userInput, feature, 500, ErrorBody, ran, FALSE))
       /\ responseCache' = cacheSet(responseCache, KeyOf[userInput, feature],
                                    ErrorBody, srvClock)
  ELSE /\ srvDone' = Append(srvDone, Exchange(id, userInput, feature, 200, result.body[1], ran, FALSE))
       /\ responseCache' = cacheSet(responseCache, KeyOf[userInput, feature],
                                    result.body[1], srvClock)

\* the end of the handler after processWithAI: responseCache.set and
\* res.status(200).json(response), or the catch block with status 500
Finish(id, userInput, feature, result, ran) ==
  IF result.threw
  THEN /\ srvDone' = Append(srvDone, Exchange(id, userInput, feature, 500, ErrorBody, ran, FALSE))
       /\ UNCHANGED responseCache
  ELSE /\ srvDone' = Append(srvDone, Exchange(id, userInput, feature, 200, result.body[1], ran, FALSE))
       /\ responseCache' = cacheSet(responseCache, KeyOf[userInput, feature],
                                    result.body[1], srvClock)

\* a POST with a userInput arrives: the handler runs to its end, or to the
\* fetch of processWithOpenAI
HandleRequest(userInput, feature) ==
  /\ srvCount < MaxCalls
  /\ srvCount' = srvCount + 1
  /\ LET id == srvCount + 1
         cached == cacheGet(responseCache, KeyOf[userInput, feature])
         quickResult == QuickResultOf[userInput, feature]
     IN IF cached # << >> /\ CacheFresh(cached[1], srvClock)
        THEN /\ srvDone' = Append(srvDone,
                  Exchange(id, userInput, feature, 200,
                           [cached[1].response EXCEPT !.cached = TRUE], {}, TRUE))
             /\ UNCHANGED <<responseCache, srvPending>>
        ELSE IF quickResult # << >>
        THEN /\ Finish(id, userInput, feature,
                       [threw |-> FALSE, body |-> quickResult], {"quick"})
             /\ UNCHANGED srvPending
        ELSE IF apiKey
        THEN /\ srvPending' = Append(srvPending,
                                     [id |-> id, userInput |-> userInput, feature |-> feature])
             /\ UNCHANGED <<responseCache, srvDone>>
        ELSE /\ Finish(id, userInput, feature, HeuristicFor(userInput, feature),
                       {"quick", "heuristic"})
             /\ UNCHANGED srvPending
  /\ UNCHANGED <<apiKey, srvClock, srvRejected>>
  /\ UNCHANGED <<formVars, sessionVars, composeVars, requestVars, heuristicVars>>

\* the fetch of processWithOpenAI settles for the pending request p
ModelSettles(p, answer) ==
  /\ p \in 1..Len(srvPending)
  /\ srvPending' = SubSeq(srvPending, 1, p - 1) \o SubSeq(srvPending, p + 1, Len(srvPending))
  /\ LET r == srvPending[p]
         fromModel == processWithOpenAI(answer, r.feature)
     IN IF fromModel.threw
        THEN Finish(r.id, r.userInput, r.feature, HeuristicFor(r.userInput, r.feature),
                    {"quick", "model", "heuristic"})
        ELSE Finish(r.id, r.userInput, r.feature, fromModel, {"quick", "model"})
  /\ UNCHANGED <<apiKey, srvClock, srvCount, srvRejected>>
  /\ UNCHANGED <<formVars, sessionVars, composeVars, requestVars, heuristicVars>>

\* the requests the handler answers before its cache lookup (lines 591-608):
\* another method than POST gets 405, a POST without userInput gets 400
RequestMethods == {"GET", "POST"}

RejectedStatus(method) == IF method # "POST" THEN 405 ELSE 400

\* a request of another method, or a POST whose body has no userInput,
\* arrives: the handler answers and returns
RejectRequest(method) ==
  /\ srvRejected' = RejectedStatus(method)
  /\ UNCHANGED <<apiKey, srvClock, responseCache, srvPending, srvDone, srvCount>>
  /\ UNCHANGED <<formVars, sessionVars, composeVars, requestVars, heuristicVars>>

\* time passes on the server
AdvanceClock ==
  /\ srvClock < MaxClock
  /\ srvClock' = srvClock + ClockStep
  /\ UNCHANGED <<apiKey, responseCache, srvPending, srvDone, srvCount, srvRejected>>
  /\ UNCHANGED <<formVars, sessionVars, composeVars, requestVars, heuristicVars>>

NextEndpoint ==
  \/ \E userInput \in UserInputs, feature \in EndpointFeatures : HandleRequest(userInput, feature)
  \/ \E p \in 1..MaxCalls, answer \in ModelAnswers : ModelSettles(p, answer)
  \/ \E method \in RequestMethods : RejectRequest(method)
  \/ AdvanceClock

(***************************************************************************)
(* Specifications                                                          *)
(***************************************************************************)
\* the component after mount: collapsed, empty, nothing pending; an empty task
\* list; no call of makeRequest under way
Init ==
  /\ isExpanded = FALSE
  /\ input = << >>
  /\ aiSuggestions = NoResult
  /\ isProcessing = FALSE
  /\ parsedTask = NoResult
  /\ timers = << >>
  /\ reqs = << >>
  /\ issued = 0
  /\ sinceKey = DebounceWait
  /\ submitted = NoTask
  /\ lastLog = NoLog
  /\ selectedSuggestions = << >>
  /\ tasks = << >>
  /\ db = {}
  /\ nextId = 1
  /\ changed = FALSE
  /\ tempCount = 0
  /\ comps = << >>
  /\ pcalls = << >>
  /\ notifications = << >>
  /\ selectedProject = "INBOX"
  /\ day = 1
  /\ mrPc = "idle"
  /\ mrRetries = MAX_RETRIES
  /\ mrTimeout = DEFAULT_TIMEOUT
  /\ mrHist = << >>
  /\ mrDelays = << >>
  /\ mrError = NoError
  /\ apiKey = FALSE
  /\ srvClock = 0
  /\ responseCache = {}
  /\ srvPending = << >>
  /\ srvDone = << >>
  /\ srvCount = 0
  /\ srvRejected = 0
  /\ hInput = << >>
  /\ hResult = NoCall

\* a call of a parsing function with one of the texts
InitHeuristic ==
  /\ isExpanded = FALSE
  /\ input = << >>
  /\ aiSuggestions = NoResult
  /\ isProcessing = FALSE
  /\ parsedTask = NoResult
  /\ timers = << >>
  /\ reqs = << >>
  /\ issued = 0
  /\ sinceKey = DebounceWait
  /\ submitted = NoTask
  /\ lastLog = NoLog
  /\ selectedSuggestions = << >>
  /\ tasks = << >>
  /\ db = {}
  /\ nextId = 1
  /\ changed = FALSE
  /\ tempCount = 0
  /\ comps = << >>
  /\ pcalls = << >>
  /\ notifications = << >>
  /\ selectedProject = "INBOX"
  /\ day = 1
  /\ mrPc = "idle"
  /\ mrRetries = MAX_RETRIES
  /\ mrTimeout = DEFAULT_TIMEOUT
  /\ mrHist = << >>
  /\ mrDelays = << >>
  /\ mrError = NoError
  /\ apiKey = FALSE
  /\ srvClock = 0
  /\ responseCache = {}
  /\ srvPending = << >>
  /\ srvDone = << >>
  /\ srvCount = 0
  /\ srvRejected = 0
  /\ hInput \in HeuristicInputs
  /\ hResult = NoCall

\* an expanded form showing results, as the composer finds it
InitForm ==
  /\ isExpanded = TRUE
  /\ \E f \in ComposeForms :
       /\ input = f.input
       /\ parsedTask = f.parsedTask
       /\ aiSuggestions = f.aiSuggestions
  /\ selectedSuggestions = << >>
  /\ isProcessing = FALSE
  /\ timers = << >>
  /\ reqs = << >>
  /\ issued = 0
  /\ sinceKey = DebounceWait
  /\ submitted = NoTask
  /\ lastLog = NoLog
  /\ tasks = << >>
  /\ db = {}
  /\ nextId = 1
  /\ changed = FALSE
  /\ tempCount = 0
  /\ comps = << >>
  /\ pcalls = << >>
  /\ notifications = << >>
  /\ selectedProject = "INBOX"
  /\ day = 1
  /\ mrPc = "idle"
  /\ mrRetries = MAX_RETRIES
  /\ mrTimeout = DEFAULT_TIMEOUT
  /\ mrHist = << >>
  /\ mrDelays = << >>
  /\ mrError = NoError
  /\ apiKey = FALSE
  /\ srvClock = 0
  /\ responseCache = {}
  /\ srvPending = << >>
  /\ srvDone = << >>
  /\ srvCount = 0
  /\ srvRejected = 0
  /\ hInput = << >>
  /\ hResult = NoCall

\* a form ready for composition in any of the views of the task list
InitRetry ==
  /\ isExpanded = TRUE
  /\ \E f \in ComposeForms :
       /\ input = f.input
       /\ parsedTask = f.parsedTask
       /\ aiSuggestions = f.aiSuggestions
  /\ selectedSuggestions = << >>
  /\ isProcessing = FALSE
  /\ timers = << >>
  /\ reqs = << >>
  /\ issued = 0
  /\ sinceKey = DebounceWait
  /\ submitted = NoTask
  /\ lastLog = NoLog
  /\ tasks = << >>
  /\ db = {}
  /\ nextId = 1
  /\ changed = FALSE
  /\ tempCount = 0
  /\ comps = << >>
  /\ pcalls = << >>
  /\ notifications = << >>
  /\ selectedProject \in {"INBOX", "TODAY"}
  /\ day = 1
  /\ mrPc = "idle"
  /\ mrRetries = MAX_RETRIES
  /\ mrTimeout = DEFAULT_TIMEOUT
  /\ mrHist = << >>
  /\ mrDelays = << >>
  /\ mrError = NoError
  /\ apiKey = FALSE
  /\ srvClock = 0
  /\ responseCache = {}
  /\ srvPending = << >>
  /\ srvDone = << >>
  /\ srvCount = 0
  /\ srvRejected = 0
  /\ hInput = << >>
  /\ hResult = NoCall

\* the server after start, with or without a model credential
InitEndpoint ==
  /\ isExpanded = FALSE
  /\ input = << >>
  /\ aiSuggestions = NoResult
  /\ isProcessing = FALSE
  /\ parsedTask = NoResult
  /\ timers = << >>
  /\ reqs = << >>
  /\ issued = 0
  /\ sinceKey = DebounceWait
  /\ submitted = NoTask
  /\ lastLog = NoLog
  /\ selectedSuggestions = << >>
  /\ tasks = << >>
  /\ db = {}
  /\ nextId = 1
  /\ changed = FALSE
  /\ tempCount = 0
  /\ comps = << >>
  /\ pcalls = << >>
  /\ notifications = << >>
  /\ selectedProject = "INBOX"
  /\ day = 1
  /\ mrPc = "idle"
  /\ mrRetries = MAX_RETRIES
  /\ mrTimeout = DEFAULT_TIMEOUT
  /\ mrHist = << >>
  /\ mrDelays = << >>
  /\ mrError = NoError
  /\ apiKey \in BOOLEAN
  /\ srvClock = 0
  /\ responseCache = {}
  /\ srvPending = << >>
  /\ srvDone = << >>
  /\ srvCount = 0
  /\ srvRejected = 0
  /\ hInput = << >>
  /\ hResult = NoCall

SpecInput == Init /\ [][NextInput]_vars

SpecParse == Init /\ [][NextParse]_vars

SpecCompose == InitForm /\ [][NextCompose]_vars

SpecRequest == Init /\ [][NextRequest]_vars

SpecSelection == InitForm /\ [][NextSelection]_vars

SpecRetry == InitRetry /\ [][NextRetry]_vars

SpecHeuristic == InitHeuristic /\ [][NextHeuristic]_vars

SpecEndpoint == InitEndpoint /\ [][NextEndpoint]_vars

(***************************************************************************)
(* Claims about the typing session (SpecInput)                             *)
(***************************************************************************)

\* C1: a response never replaces the displayed result (parsedTask or
\* aiSuggestions) of a request that was issued later than the one it answers.
C1_NoStaleOverwrite ==
  [][/\ (parsedTask.seq # 0 /\ parsedTask'.seq # 0) => parsedTask'.seq >= parsedTask.seq
     /\ (aiSuggestions.seq # 0 /\ aiSuggestions'.seq # 0)
          => aiSuggestions'.seq >= aiSuggestions.seq]_vars

\* C2: parsedTask is never the result of a request that was in flight when a
\* later change event happened.
C2_KeystrokeInvalidates ==
  [][(parsedTask' # parsedTask /\ parsedTask' # NoResult) =>
       \E i \in 1..Len(reqs) : reqs[i].seq = parsedTask'.seq /\ ~reqs[i].superseded]_vars

\* C5: at most one request is in flight at any time (the code never aborts a
\* request, so every unresolved request is a non-aborted one).
C5_AtMostOneInFlight == Len(reqs) <= 1

\* C6: a typing-triggered request is issued only after DebounceWait ms without
\* a change event and carries the value of the last change event.
C6_DebounceSingleCall ==
  \A i \in 1..Len(reqs) :
    reqs[i].origin = "typing" => reqs[i].quiet /\ reqs[i].fresh

\* C7: no typing-triggered request is issued while the input holds at most
\* TypingMinLen characters.
C7_NoRequestForShortInput ==
  \A i \in 1..Len(reqs) :
    reqs[i].origin = "typing" => ~reqs[i].short

\* C8: every request triggered by typing or by blur is for a value of at least
\* MinWords words that exceeds the minimum length of its trigger.
C8_MinimumContent ==
  \A i \in 1..Len(reqs) :
    /\ reqs[i].origin = "typing" =>
         WordCount(Trim(reqs[i].raw)) >= MinWords /\ Len(reqs[i].raw) > TypingMinLen
    /\ reqs[i].origin = "blur" =>
         WordCount(Trim(reqs[i].raw)) >= MinWords /\ Len(Trim(reqs[i].raw)) > BlurMinLen


\* C18: the task handed over by a submit is parsedTask.taskName when a parse
\* result is present, and the trimmed input otherwise.
C18_PrimaryTaskField ==
  [][submitted' # submitted =>
       submitted'.task = IF parsedTask # NoResult THEN parsedTask.text ELSE Trim(input)]_vars

(***************************************************************************)
(* Claims about failed calls in the typing session (SpecInput)             *)
(***************************************************************************)
\* the step in which the call of request i fails and the catch block of
\* processWithAI writes a console entry of the given level
Fails(i, level) ==
  /\ i \in 1..Len(reqs)
  /\ lastLog' # lastLog
  /\ lastLog'.seq = reqs[i].seq
  /\ lastLog'.level = level

\* the settling of a timed-out smart-parse call: nothing is shown, the
\* processing flag is cleared, the input keeps its value and stays editable
TimeoutIsSilent ==
  \A i \in 1..MaxReq :
    (Fails(i, "log") /\ reqs[i].feature = "smart-parse") =>
      /\ View'.message = "none"
      /\ ~isProcessing'
      /\ ~View'.inputDisabled
      /\ input' = input
      /\ parsedTask' = parsedTask

\* C12 as stated: a smart-parse timeout is silent, and the submit that
\* follows a timed-out smart-parse call for the submitted input hands over a
\* plain task (aiEnhanced false) whose text is the raw input.
C12_TimeoutThenPlain ==
  [][/\ TimeoutIsSilent
     /\ submitted'.afterTimeout =>
          ~submitted'.aiEnhanced /\ submitted'.task = submitted'.raw]_vars

\* C12 amended: a smart-parse timeout is silent, and the submit that follows
\* it hands over a plain task whose text is the raw input unless a parse
\* result of another call is displayed at the submit.
C12_TimeoutThenPlainUnlessParsed ==
  [][/\ TimeoutIsSilent
     /\ (submitted'.afterTimeout /\ submitted' # submitted /\ parsedTask = NoResult) =>
          ~submitted'.aiEnhanced /\ submitted'.task = submitted'.raw]_vars

\* C12 witness: a plain task was submitted after a smart-parse timeout for
\* its input.
C12_Witness ==
  /\ submitted.afterTimeout
  /\ ~submitted.aiEnhanced
  /\ submitted.task = submitted.raw
  /\ Trim(lastLog.text) = Trim(submitted.raw)
  /\ ~isProcessing

\* C13: when a task-breakdown, smart-scheduling or contextual-suggestions
\* call fails, or a smart-parse call started with the feature button fails
\* otherwise than by timeout, the view shows a message.
C13_FailureVisible ==
  [][\A i \in 1..MaxReq :
       (\/ (Fails(i, "log") \/ Fails(i, "error")) /\ reqs[i].feature # "smart-parse"
        \/ Fails(i, "error") /\ reqs[i].feature = "smart-parse" /\ reqs[i].origin = "feature")
       => View'.message # "none"]_vars


(***************************************************************************)
(* Claims about the endpoint and the client's ParsedTask (SpecEndpoint)    *)
(***************************************************************************)
PriorityLevels == {"low", "medium", "high"}

\* C14: every ParsedTask that taskProcessor.smartParse returns for a
\* smart-parse request has a confidence between 0 and 1 (0..10000 units)
\* and a priority among low, medium and high.
C14_ParsedTaskInvariants ==
  \A i \in 1..Len(srvDone) :
    (srvDone[i].feature = "smart-parse" /\ ~srvDone[i].parsedTask.threw) =>
      /\ srvDone[i].parsedTask.confidence \in 0..10000
      /\ srvDone[i].parsedTask.priority \in PriorityLevels

\* the request received in this step, as the handler leaves it
Arrival == IF Len(srvDone') > Len(srvDone) THEN srvDone'[Len(srvDone')]
           ELSE srvPending'[Len(srvPending')]

\* the entries stored less than 5 minutes ago for the feature and the
\* lower-cased trimmed input
StoredFor(userInput, feature) ==
  {e \in responseCache :
     /\ e.key = <<feature, Trim(toLowerCase(userInput))>>
     /\ srvClock - e.timestamp < 5 * 60 * 1000}

\* C15: a request whose feature and lower-cased trimmed input equal those of
\* a response stored less than 5 minutes before is answered at once with that
\* response and cached = true; a request with no such entry (none stored, or
\* stored 5 minutes or more before) is processed again.
C15_CacheLaw ==
  [][(srvCount' = srvCount + 1 /\ Arrival.feature # "undefined") =>
       LET stored == StoredFor(Arrival.userInput, Arrival.feature)
       IN /\ stored # {} =>
               /\ Len(srvDone') = Len(srvDone) + 1
               /\ Arrival.status = 200
               /\ Arrival.ran = {}
               /\ \E e \in stored : Arrival.body = [e.response EXCEPT !.cached = TRUE]
               /\ responseCache' = responseCache
          /\ stored = {} =>
               \/ Len(srvPending') = Len(srvPending) + 1
               \/ Arrival.ran # {} /\ ~Arrival.body.cached]_vars

\* C15 witness: a request was answered from the entry that a request with
\* another spelling of the same input had stored.
C15_Witness ==
  \E i, j \in 1..Len(srvDone) :
    /\ i < j
    /\ srvDone[i].key = srvDone[j].key
    /\ srvDone[i].userInput # srvDone[j].userInput
    /\ srvDone[i].status = 200 /\ ~srvDone[i].body.cached
    /\ srvDone[j].body = [srvDone[i].body EXCEPT !.cached = TRUE]

\* the entries of the quick-match table whose prefix starts the lower-cased
\* trimmed input
QuickPrefixes(userInput) ==
  {k \in 1..Len(QuickPatterns) :
     startsWith(Trim(toLowerCase(userInput)), QuickPatterns[k].pattern)}

C17_ModelFailureFallsBack ==
  \A i \in 1..Len(srvDone) :
    {"model", "heuristic"} \subseteq srvDone[i].ran =>
      /\ srvDone[i].status = 200
      /\ srvDone[i].body.source = "heuristic"
      /\ srvDone[i].body.feature = OrDefault(srvDone[i].feature, "smart-parse")

\* this step answers a request from the cache
CacheHitStep ==
  /\ srvCount' = srvCount + 1
  /\ Len(srvDone') = Len(srvDone) + 1
  /\ srvDone'[Len(srvDone')].hit

\* C28: a cache hit runs no processor (quick-match, model, heuristic) and
\* leaves the cache as it was, entries and timestamps, so that an entry
\* expires CACHE_DURATION after it was stored however often it is read; no
\* stored entry carries cached = true.
C28_CacheHitReadOnly ==
  /\ [](\A e \in responseCache : ~e.response.cached)
  /\ [][CacheHitStep =>
          /\ srvDone'[Len(srvDone')].ran = {}
          /\ srvPending' = srvPending
          /\ responseCache' = responseCache]_vars

\* the cache key of the request received in this step
ArrivalKey == KeyOf[Arrival.userInput, Arrival.feature]

\* a response for the key of the arriving request was stored less than 5
\* minutes ago
StoredInWindow ==
  \E e \in responseCache : e.key = ArrivalKey /\ srvClock - e.timestamp < 5 * 60 * 1000

\* a request with the key of the arriving request is awaiting the model
KeyInFlight ==
  \E p \in 1..Len(srvPending) :
    KeyOf[srvPending[p].userInput, srvPending[p].feature] = ArrivalKey

\* the request received in this step is answered without processing
AnsweredFromCache ==
  /\ Len(srvDone') = Len(srvDone) + 1
  /\ srvPending' = srvPending
  /\ Arrival.ran = {}

\* C29: within 5 minutes processing runs at most once per cache key: a
\* request that arrives while a response stored for its key is less than 5
\* minutes old, or while a request with its key is still awaiting the model,
\* is not processed.
C29_OncePerKeyInWindow ==
  [][srvCount' = srvCount + 1 =>
       ((StoredInWindow \/ KeyInFlight) => AnsweredFromCache)]_vars

\* C29 amended: a request that arrives while a response stored for its key
\* is less than 5 minutes old is not processed; every other request is
\* processed, also when a request with its key is still awaiting the model.
C29_OncePerKeyAfterStore ==
  [][srvCount' = srvCount + 1 =>
       (StoredInWindow <=> AnsweredFromCache)]_vars

\* C29 witness: two requests with one cache key are awaiting the model.
C29_Witness ==
  /\ Len(srvPending) = 2
  /\ KeyOf[srvPending[1].userInput, srvPending[1].feature]
       = KeyOf[srvPending[2].userInput, srvPending[2].feature]

(***************************************************************************)
(* Claims about the composer (SpecCompose)                                 *)
(***************************************************************************)
CallsOf(k, role) == {c \in 1..Len(pcalls) : pcalls[c].comp = k /\ pcalls[c].role = role}

\* C3: every subtask call of handleAddTask is made after the primary call of
\* its composition has resolved with an identifier, and carries that
\* identifier as parentTaskId; hence a primary call that is pending, failed
\* or resolved without an identifier has no subtask call.
C3_SubtasksAfterPrimary ==
  \A c \in 1..Len(pcalls) :
    pcalls[c].role = "subtask" =>
      LET p == comps[pcalls[c].comp].primary
      IN /\ p < c
         /\ pcalls[p].status = "ok"
         /\ pcalls[p].id # 0
         /\ pcalls[c].parent = pcalls[p].id

\* C3 witness: a composition whose primary call returned an identifier has
\* issued two subtask calls.
C3_Witness ==
  \E k \in 1..Len(comps) :
    /\ pcalls[comps[k].primary].status = "ok"
    /\ Cardinality(CallsOf(k, "subtask")) = 2

\* C4: when a subtask call of a settled batch has failed, every selected
\* draft was still submitted, and the primary task and every successfully
\* persisted sibling are in the persistence layer and in the client list.
C4_FailureIsolation ==
  \A k \in 1..Len(comps) :
    (/\ comps[k].kind = "selected"
     /\ comps[k].pc = "done"
     /\ ~changed
     /\ pcalls[comps[k].primary].status = "ok"
     /\ \E c \in CallsOf(k, "subtask") : pcalls[c].status = "failed")
    => /\ Cardinality(CallsOf(k, "subtask")) = Len(comps[k].drafts)
       /\ \A c \in CallsOf(k, "primary") \cup CallsOf(k, "subtask") :
            pcalls[c].status = "ok" =>
              /\ \E row \in db : row.id = pcalls[c].id
              /\ \E i \in 1..Len(tasks) : tasks[i].id = RealId(pcalls[c].id)

\* C20: the subtask drafts of handleAddSelectedSuggestions are exactly the
\* suggestions selected on display, one draft per selected suggestion, and
\* every subtask call is made for one of them.
C20_SubtasksFromSelection ==
  \A k \in 1..Len(comps) :
    comps[k].kind = "selected" =>
      /\ Len(comps[k].drafts) = Len(comps[k].selected)
      /\ \A j \in 1..Len(comps[k].selected) :
           /\ comps[k].selected[j] \in comps[k].shown
           /\ j <= Len(comps[k].drafts) => comps[k].drafts[j] = comps[k].selected[j].text
      /\ \A c \in CallsOf(k, "subtask") :
           \E j \in 1..Len(comps[k].selected) : pcalls[c].label = comps[k].selected[j].text

\* C21: once the primary draft is dispatched and its subtask calls are
\* issued, the input, parsedTask and the selection set are already cleared:
\* the form does not wait for a pending subtask call.
C21_ResetWithoutWaiting ==
  \A c \in 1..Len(pcalls) :
    (pcalls[c].role = "subtask" /\ pcalls[c].status = "pending") =>
      /\ input = << >>
      /\ parsedTask = NoResult
      /\ selectedSuggestions = << >>

\* C21 (amended): the step that ends a composition happens when none of its
\* persistence calls is pending any more, whatever their outcomes, and it
\* leaves the input, parsedTask and the selection set cleared.
C21_ResetAfterSettled ==
  [][\A k \in 1..Len(comps) :
       (comps[k].pc # "done" /\ comps'[k].pc = "done") =>
         /\ \A c \in 1..Len(pcalls') : pcalls'[c].comp = k => pcalls'[c].status # "pending"
         /\ input' = << >>
         /\ parsedTask' = NoResult
         /\ selectedSuggestions' = << >>]_vars

\* a composition with a selection has ended after one of its subtask calls
\* failed and another succeeded
C21_Witness ==
  \E k \in 1..Len(comps) :
    /\ comps[k].pc = "done" /\ comps[k].selected # << >>
    /\ \E c \in 1..Len(pcalls) :
         pcalls[c].comp = k /\ pcalls[c].role = "subtask" /\ pcalls[c].status = "failed"
    /\ \E c \in 1..Len(pcalls) :
         pcalls[c].comp = k /\ pcalls[c].role = "subtask" /\ pcalls[c].status = "ok"
    /\ input = << >> /\ parsedTask = NoResult /\ selectedSuggestions = << >>

(***************************************************************************)
(* Claims about the end of a parse call (SpecParse)                        *)
(***************************************************************************)
\* C23: the step in which a call settles, with any outcome, leaves
\* isProcessing false: the input is not disabled and the submit button is
\* enabled for a non-empty input.
C23_ErrorsNeverBlock ==
  [][Len(reqs') < Len(reqs) =>
       /\ ~isProcessing'
       /\ ~View'.inputDisabled
       /\ (Trim(input') # << >> => ~View'.submitDisabled)]_vars

\* the latest call failed with an error and the form, still holding its
\* text, can be submitted
C23_Witness ==
  /\ lastLog.level = "error"
  /\ isExpanded /\ Trim(input) # << >>
  /\ reqs = << >>
  /\ ~isProcessing /\ ~View.submitDisabled

(***************************************************************************)
(* Claims about the parsing functions of the endpoint (SpecHeuristic)      *)
(***************************************************************************)
\* the result of the call of smartParseTask, when that is the call made
Parsed == hResult.out[1].parsed[1]

\* 0.5 plus the bonuses in exact arithmetic, capped at 1.0
NominalConfidence ==
  Min(5000 + (IF Parsed.date # << >> THEN 2000 ELSE 0)
           + (IF Parsed.time # << >> THEN 1000 ELSE 0)
           + (IF Parsed.people # << >> THEN 1000 ELSE 0)
           + (IF Len(hInput) > 10 THEN 1000 ELSE 0), 10000)

\* C24: the confidence of smartParseTask is 0.5, plus 0.2 for a date, 0.1 for
\* a time, 0.1 for a person and 0.1 for an input longer than 10 characters,
\* capped at 1.0, and lies between 0.5 and 1.0.
C24_ConfidenceFormula ==
  hResult.fn = "smartParseTask" =>
    /\ hResult.out[1].confidence = <<NominalConfidence>>
    /\ hResult.out[1].confidence[1] \in 5000..10000

\* C24 (amended): the confidence is that sum as double addition computes it,
\* which is the exact sum or the double just below it, and lies between 0.5
\* and 1.0.
C24_ConfidenceFormulaRounded ==
  hResult.fn = "smartParseTask" =>
    /\ hResult.out[1].confidence \in {<<NominalConfidence>>, <<NominalConfidence - 1>>}
    /\ hResult.out[1].confidence[1] \in 5000..10000

\* a text longer than 10 characters with a date, a time and a person
C24_Witness ==
  /\ hResult.fn = "smartParseTask"
  /\ Parsed.date # << >> /\ Parsed.time # << >> /\ Parsed.people # << >>
  /\ Len(hInput) > 10
  /\ hResult.out[1].confidence = <<9999>>

\* "Call Sarah tomorrow at 3pm"
CallSarahTomorrowAt3pm == <<"C", "a", "l", "l", " ", "S", "a", "r", "a", "h", " ", "t", "o", "m", "o", "r", "r", "o", "w", " ", "a", "t", " ", "3", "p", "m">>

\* C25: smartParseTask on "Call Sarah tomorrow at 3pm" returns the task name
\* "Call Sarah", the date "tomorrow", the time "3pm", the people ["Sarah"],
\* the category "personal", the priority "medium" and a confidence of at
\* least 0.8.
C25_CallSarahScenario ==
  (hResult.fn = "smartParseTask" /\ hInput = CallSarahTomorrowAt3pm) =>
    /\ Parsed.taskName = <<"C", "a", "l", "l", " ", "S", "a", "r", "a", "h">>
    /\ Parsed.date = <<<<"t", "o", "m", "o", "r", "r", "o", "w">>>>
    /\ Parsed.time = <<<<"3", "p", "m">>>>
    /\ Parsed.people = <<<<"S", "a", "r", "a", "h">>>>
    /\ Parsed.category = "personal"
    /\ Parsed.priority = "medium"
    /\ hResult.out[1].confidence[1] >= 8000

\* the text consists of white space only (or is empty)
IsBlank(s) == \A i \in 1..Len(s) : s[i] \in Spaces

\* C26: for an empty or whitespace-only input of any length smartParseTask
\* returns the original text as taskName and a confidence of exactly 0.5
C26_BlankInputNoBonus ==
  (hResult.fn = "smartParseTask" /\ IsBlank(hInput)) =>
    /\ Parsed.taskName = hInput
    /\ hResult.out[1].confidence = <<5000>>

\* the quick pattern that the lower-cased trimmed input starts with
MatchedPrefix ==
  LET lower == Trim(toLowerCase(hInput))
  IN QuickPatterns[CHOOSE k \in 1..Len(QuickPatterns) :
                     /\ startsWith(lower, QuickPatterns[k].pattern)
                     /\ \A j \in 1..(k - 1) :
                          ~startsWith(lower, QuickPatterns[j].pattern)].pattern

\* C30: on a quick match the task name is the input with the matched
\* prefix stripped and the surrounding white space trimmed, also for inputs
\* with leading white space or upper-case letters in the prefix; if nothing
\* remains, the task name is the input itself
C30_QuickMatchStripsPrefix ==
  (hResult.fn = "getQuickParseResult" /\ hResult.out # << >>) =>
    Parsed.taskName =
      OrText(Trim(slice(TrimStart(hInput), Len(MatchedPrefix))), hInput)

(***************************************************************************)
(* Claims about failed persistence calls (SpecRetry)                       *)
(***************************************************************************)
\* C22: a persistence call that fails adds a notification with a Retry
\* action, and every call issued by a Retry carries the draft of the failed
\* call: the same task text, projectId, date, priority, metadata and
\* parentTaskId.
C22_RetryReplaysDraft ==
  [][/\ \A c \in 1..Len(pcalls) :
          (pcalls[c].status = "pending" /\ pcalls'[c].status = "failed") =>
            \E n \in 1..Len(notifications') :
              notifications'[n].call = c /\ notifications'[n].action = "Retry"
     /\ \A c \in (Len(pcalls) + 1)..Len(pcalls') :
          pcalls'[c].retryOf # 0 =>
            LET failed == pcalls[pcalls'[c].retryOf]
            IN /\ failed.status = "failed"
               /\ pcalls'[c].label = failed.label
               /\ pcalls'[c].projectId = failed.projectId
               /\ pcalls'[c].date = failed.date
               /\ pcalls'[c].priority = failed.priority
               /\ pcalls'[c].metadata = failed.metadata
               /\ pcalls'[c].parent = failed.parent]_vars

(***************************************************************************)
(* Claims about the selection set (SpecSelection)                          *)
(***************************************************************************)
\* C19: every step that changes the input (a change event, a submission by
\* handleSubmit, handleAddSelectedSuggestions or handleSuggestionClick, the
\* Cancel button) leaves the selection set empty.
C19_SelectionCleared ==
  [][input' # input => selectedSuggestions' = << >>]_vars

(***************************************************************************)
(* Claims about makeRequest (SpecRequest)                                  *)
(***************************************************************************)
Transient(outcome) ==
  outcome.kind \in {"network", "abort"} \/ outcome.status >= 500

ClientFailure(outcome) ==
  outcome.kind = "response" /\ outcome.status >= 400 /\ outcome.status <= 499

\* C9: a call surfaces a network failure, a timeout or a status >= 500 only
\* after it has used its MAX_RETRIES retries.
C9_TransientRetried ==
  (mrPc = "thrown" /\ Transient(mrHist[Len(mrHist)])) => Len(mrHist) = MAX_RETRIES + 1

\* C10: an attempt that fails with status 429 or another 4xx status is the
\* last attempt of its call, and the call then fails; a call whose first
\* attempt fails this way makes exactly one attempt.
C10_ClientFailureNotRetried ==
  \A i \in 1..Len(mrHist) :
    ClientFailure(mrHist[i]) => i = Len(mrHist) /\ mrPc = "thrown"

\* C10 witness: a call has failed on a 4xx status with retries left.
C10_Witness ==
  /\ mrPc = "thrown"
  /\ Len(mrHist) = 1
  /\ ClientFailure(mrHist[1])
  /\ mrRetries = MAX_RETRIES

\* the taxonomy entry for the way the last attempt of a call failed
TaxonomyKind(outcome) ==
  IF outcome.kind = "network" THEN "NETWORK_ERROR"
  ELSE IF outcome.kind = "abort" THEN "TIMEOUT_ERROR"
  ELSE IF outcome.status = 429 THEN "RATE_LIMIT_ERROR"
  ELSE IF outcome.status >= 400 /\ outcome.status <= 499 THEN "VALIDATION_ERROR"
  ELSE "API_ERROR"

\* C11: the error a call of makeRequest throws has the type the taxonomy gives
\* to its last attempt: NETWORK_ERROR without a response, TIMEOUT_ERROR for an
\* abort at the deadline, RATE_LIMIT_ERROR for 429, VALIDATION_ERROR for any
\* other 4xx, API_ERROR for 5xx.
C11_ErrorKinds ==
  mrPc = "thrown" => mrError.type = TaxonomyKind(mrHist[Len(mrHist)])

\* what is left of a call: two units for every retry it may still make, and
\* the steps of the attempt under way
StepsLeft ==
  2 * mrRetries + (IF mrPc = "fetch" THEN 2 ELSE IF mrPc = "delay" THEN 1 ELSE 0)

\* a step of a call under way leaves less of it
CallAdvances ==
  mrPc \in {"fetch", "delay"} => StepsLeft' \in 0..(StepsLeft - 1)

\* C27: makeRequest terminates: every step of a call takes it closer to its
\* end, it makes at most MAX_RETRIES + 1 = 3 attempts, the first retry comes
\* after a delay of 1000 ms and the second after 2000 ms, and the call ends
\* by returning a response that is ok or by throwing an AIClientError.
C27_BoundedRetries ==
  /\ [](/\ Len(mrHist) <= 3
        /\ Len(mrDelays) <= 2
        /\ \A i \in 1..Len(mrDelays) : mrDelays[i] = 1000 * i
        /\ mrPc \in {"fetch", "delay"} => Len(mrDelays) + 1 >= Len(mrHist)
        /\ mrPc = "fetch" => Len(mrDelays) = Len(mrHist)
        /\ mrPc = "returned" => /\ mrHist[Len(mrHist)].kind = "response"
                                /\ ResponseOk(mrHist[Len(mrHist)].status)
                                /\ Len(mrDelays) = Len(mrHist) - 1
        /\ mrPc = "thrown" => /\ mrError.name = "AIClientError"
                              /\ Len(mrDelays) = Len(mrHist) - 1)
  /\ [][CallAdvances]_vars

\* C27 witness: a call has thrown after three attempts and both delays.
C27_Witness ==
  /\ mrPc = "thrown"
  /\ Len(mrHist) = 3
  /\ mrDelays = <<1000, 2000>>

(***************************************************************************)
(* Claims about the responses built from a model answer (SpecEndpoint)     *)
(***************************************************************************)
\* the exchanges answered with the response that processWithOpenAI built
FromModel == {i \in 1..Len(srvDone) : ~srvDone[i].hit /\ srvDone[i].ran = {"quick", "model"}}

\* C31: every response the endpoint builds from a model answer has
\* success = true and aiPowered = true, whatever keys the model's JSON
\* object contains.
C31_ModelBackedFlags ==
  \A i \in FromModel : srvDone[i].body.success /\ srvDone[i].body.aiPowered

\* C32: when the model answers a smart-parse request with an object giving
\* taskName, date and priority, the ParsedTask that taskProcessor.smartParse
\* returns has that taskName, that date and that priority.
C32_ModelFieldsReachClient ==
  \A i \in FromModel :
    LET e == srvDone[i]
        given == e.body.flat[1]
    IN (/\ e.feature = "smart-parse"
        /\ e.body.success
        /\ given.taskName # << >> /\ given.date # << >>
        /\ given.priority \in PriorityLevels) =>
         /\ ~e.parsedTask.threw
         /\ e.parsedTask.taskName = given.taskName[1]
         /\ e.parsedTask.date = given.date
         /\ e.parsedTask.priority = given.priority

(***************************************************************************)
(* Claims about the processing indicator and the reset form (SpecInput)    *)
(***************************************************************************)
\* C33: isProcessing is true exactly while at least one request of the
\* component is unresolved; it is never false while a request is in flight.
C33_ProcessingWhileInFlight ==
  isProcessing <=> reqs # << >>

\* C34: while the input stays empty, as a reset leaves it, parsedTask and
\* aiSuggestions stay null and no request is issued: neither a debounce
\* timer pending at the reset nor a request in flight at the reset
\* repopulates them.
C34_ResetStaysClean ==
  [][(input = << >> /\ input' = << >>) =>
       /\ parsedTask' = NoResult
       /\ aiSuggestions' = NoResult
       /\ issued' = issued]_vars

(***************************************************************************)
(* Claims about concurrent compositions and the client list                *)
(***************************************************************************)
Awaiting == {k \in 1..Len(comps) : comps[k].pc \in {"primary", "subtasks"}}

\* C35: while a composition is awaiting persistence and the form has not been
\* reset, no step issues a second primary-task creation for the input of the
\* form: no further composition starts and handleSubmit hands no task to
\* onAddTask.
C35_OnePrimaryPerComposition ==
  [][(Awaiting # {} /\ Trim(input) # << >>) =>
       /\ Len(comps') = Len(comps)
       /\ submitted' = submitted]_vars

\* C36: the identifiers of the entries of the client task list are pairwise
\* distinct in every state, temp identifiers of creations in flight and
\* persisted identifiers alike.
C36_DistinctIdentifiers ==
  \A i, j \in 1..Len(tasks) : tasks[i].id = tasks[j].id => i = j

\* the entries of the list before a step that are missing or different after it
LostEntries == {i \in 1..Len(tasks) : \A j \in 1..Len(tasks') : tasks'[j] # tasks[i]}

\* the creation calls that fail in a step
FailingCalls == {c \in 1..Len(pcalls) :
                   pcalls[c].status = "pending" /\ pcalls'[c].status = "failed"}

\* C37: when a creation fails, the revert removes only the optimistic entry
\* of that creation: every other entry of the list is still there, unchanged,
\* after the step.
C37_RevertRemovesOnlyOwnEntry ==
  [][\A c \in FailingCalls : \A i \in LostEntries :
       tasks[i].id = TempId(pcalls[c].temp)]_vars

(***************************************************************************)
(* Claims about what the handler stores (SpecEndpoint)                     *)
(***************************************************************************)
\* this step sends an error response: 405 or 400 for a request turned away,
\* or 500 from the catch block
ErrorSent ==
  \/ srvRejected' # srvRejected
  \/ /\ Len(srvDone') = Len(srvDone) + 1
     /\ srvDone'[Len(srvDone')].status = 500

\* C38: every entry of the response cache is the response of a request that
\* was processed and answered with 200 under the entry's key, and a step that
\* answers 405, 400 or 500 leaves the cache unchanged.
C38_OnlyProcessedResultsStored ==
  /\ [](\A e \in responseCache :
          \E i \in 1..Len(srvDone) :
            /\ srvDone[i].status = 200 /\ ~srvDone[i].hit
            /\ srvDone[i].key = e.key
            /\ srvDone[i].body = e.response)
  /\ [][ErrorSent => responseCache' = responseCache]_vars

\* C38 witness: requests were turned away and a request failed with 500
\* while the cache holds a stored response.
C38_Witness ==
  /\ srvRejected # 0
  /\ \E i \in 1..Len(srvDone) : srvDone[i].status = 500
  /\ responseCache # {}

(***************************************************************************)
(* Claims about the optimistic flag (SpecCompose)                          *)
(***************************************************************************)
\* C39: an entry of the client list has _optimistic = true only while the
\* creation that added it is still pending; once createTask has succeeded
\* the entry carries the persisted identifier and _optimistic = false.
C39_OptimisticOnlyWhilePending ==
  \A i \in 1..Len(tasks) :
    tasks[i].optimistic =>
      /\ tasks[i].id.kind = "temp"
      /\ \E c \in 1..Len(pcalls) :
           pcalls[c].status = "pending" /\ TempId(pcalls[c].temp) = tasks[i].id

====
